---- MODULE Spec2Model ----
(***************************************************************************)
(* Model of the Aagna Naturals storefront / admin client:                  *)
(*   - components/admin/BlogsManagement.tsx  (blog editor, media upload)   *)
(*   - pages/Blog.tsx                        (public blog page, checkout)  *)
(*   - components/admin/ProductsManagement.tsx (product admin)             *)
(* The remote tables and the object store are modelled by their contents.  *)
(***************************************************************************)
EXTENDS Integers, Sequences, FiniteSets, TLC

VARIABLES
    \* ---- remote store ----
    blogsTable,     \* table blogs, newest first (order created_at desc)
    storage,        \* bucket blog-media: the files uploaded, in upload order
    nextId,         \* next fresh blog id
    \* ---- BlogsManagement component ----
    blogs,          \* data of the admin-blogs query (parsed rows)
    blogsStale,     \* the admin-blogs query was invalidated and not yet refetched
    editingBlog,    \* useState editingBlog: the id of a cached row, or NoBlog
    publish,        \* useState publish
    existingMedia,  \* useState existingMedia
    newFiles,       \* useState newFiles
    mut,            \* the create/update mutation in flight
    toasts,         \* the toasts raised by the last step
    submits,        \* submissions of the editor form so far
    content,        \* useState content
    user,           \* useAuth().user: a user is signed in
    \* ---- public Blog page ----
    pageData,       \* data of the blogs query of the public page (raw rows)
    \* ---- remote store, shop tables ----
    products,       \* table products: id -> row, or NoProduct once deleted
    cart_items,     \* table cart_items of the user
    orders,         \* table orders, in insertion order
    order_items,    \* table order_items, in insertion order
    \* ---- Checkout component ----
    cartItems,      \* data of the cart query: the cart rows joined with their products
    processing,     \* useState processing
    order,          \* the order mutation: timer, steps and the values it works on
    calls,          \* the remote writes of the current or last order mutation
    shopToasts,     \* the toasts raised by the last step of the shop
    href,           \* window.location.href
    profiles,       \* table profiles: the row of the user
    profile,        \* data of the profile query
    \* ---- ProductsManagement component ----
    productList,    \* data of the admin-products query
    productsStale,  \* the admin-products query was invalidated and not yet refetched
    dialogOpen,     \* useState dialogOpen
    editingProduct, \* useState editingProduct: the id of a listed product, or NoSelection
    formData,       \* useState formData
    mutations,      \* the product mutations in flight
    mutationId,     \* the id of the last product mutation started (mutation cache)
    uploads,        \* the product image uploads in flight
    adminToasts,    \* the toasts raised by the last step of the product panel
    nextProductId   \* the next fresh product id (remote store)

blogVars == <<blogsTable, storage, nextId, blogs, blogsStale, editingBlog,
              publish, existingMedia, newFiles, mut, toasts, submits, pageData,
              content, user>>

shopVars == <<products, cart_items, orders, order_items, cartItems, processing,
              order, calls, shopToasts, href, profiles, profile>>

adminVars == <<productList, productsStale, dialogOpen, editingProduct, formData,
               mutations, mutationId, uploads, adminToasts, nextProductId>>

vars == <<blogVars, shopVars, adminVars>>

----------------------------------------------------------------------------
(* Bounds *)
MaxSel      == 2    \* files in one selection
MaxNewFiles == 2    \* staged files
MaxMedia    == 5    \* media items held by the form (existing + staged)
MaxInit     == 3    \* media items of the blog present initially
MaxIds      == 2    \* blog ids ever handed out
MaxStorage  == 2    \* files ever uploaded
MaxSubmits  == 1    \* submissions of the editor form
MaxTokens   == 5    \* JSON tokens of a stored string cell
MaxCart     == 2    \* lines of the cart
MaxOrders   == 2    \* order rows ever inserted
RemoveUpTo  == 1    \* highest index a Remove button is pressed at (SpecBlog)
MaxPending  == 1    \* product mutations in flight
MaxMutations == 2   \* product mutations ever started
MaxUploads  == 1    \* product image uploads in flight

(* Program constant: the image cap of handleFileChange *)
MaxImages == 4

----------------------------------------------------------------------------
(* Values *)
MimeKinds  == {"image", "video", "audio", "other"}   \* file.type by its prefix
MediaTypes == {"image", "video", "audio"}            \* MediaItem["type"]

NoBlog == [id |-> 0]

File(kind, name) == [kind |-> kind, name |-> name]
MediaItem(type, url) == [type |-> type, url |-> url]

JsArray(items) == [js |-> "array", items |-> items]
JsNull == [js |-> "null"]
IsArray(v) == "js" \in DOMAIN v /\ v.js = "array"

SeqsUpTo(S, n) == UNION {[1..k -> S] : k \in 0..n}

IsImageFile(f) == f.kind = "image"          \* f.type.startsWith("image/")
IsImageItem(m) == m.type = "image"          \* m.type === "image"

RemoveAt(s, index) ==                       \* prev.filter((_, i) => i !== index)
    [i \in 1..(Len(s) - 1) |-> IF i < index THEN s[i] ELSE s[i + 1]]

\* isLoading of the admin-blogs query: the component renders a spinner only
\* (lines 247-253)
isLoading == user /\ blogs.status = "loading"

ImageFiles(fs) == Len(SelectSeq(fs, IsImageFile))
ImageItems(ms) == Len(SelectSeq(ms, IsImageItem))

----------------------------------------------------------------------------
(* handleFileChange, BlogsManagement.tsx:194-225 *)

\* currentImageCount (lines 198-200)
currentImageCount(existing, staged) == ImageItems(existing) + ImageFiles(staged)

\* the test of line 207-211, with <= for < (accepts a fifth image)
AcceptsImageOffByOne(count, allowed) == count + ImageFiles(allowed) <= MaxImages

\* the test of line 207-211
AcceptsImage(count, allowed) == count + ImageFiles(allowed) < MaxImages

\* the loop of lines 205-219: the state is <<allowedFiles, rejectedImages>>
RECURSIVE FileLoop(_, _, _, _)
FileLoop(files, count, allowedFiles, rejectedImages) ==
    IF files = <<>> THEN [allowedFiles |-> allowedFiles, rejectedImages |-> rejectedImages]
    ELSE LET file == Head(files) IN
         IF IsImageFile(file)
         THEN IF AcceptsImage(count, allowedFiles)
              THEN FileLoop(Tail(files), count, Append(allowedFiles, file), rejectedImages)
              ELSE FileLoop(Tail(files), count, allowedFiles, rejectedImages + 1)
         ELSE FileLoop(Tail(files), count, Append(allowedFiles, file), rejectedImages)

\* a selection: the files chosen in the file dialog, named by their position
Selection(kinds) == [i \in 1..Len(kinds) |-> File(kinds[i], i)]
SelectedKinds == {"image", "video", "other"}     \* the kinds the selections are drawn from
Selections == {Selection(kinds) : kinds \in SeqsUpTo(SelectedKinds, MaxSel)}
\* selections of files that all bear the same name
PlainSelections == {[i \in 1..Len(kinds) |-> File(kinds[i], 1)] :
                       kinds \in SeqsUpTo(SelectedKinds, MaxSel)}

handleFileChange(files) ==
    /\ ~isLoading
    /\ IF files = <<>>
       THEN /\ toasts' = <<>>
            /\ newFiles' = newFiles
       ELSE LET r == FileLoop(files, currentImageCount(existingMedia, newFiles), <<>>, 0) IN
            /\ toasts' = IF r.rejectedImages > 0
                         THEN <<"Maximum 4 images allowed">> ELSE <<>>
            /\ newFiles' = newFiles \o r.allowedFiles
    /\ Len(newFiles') <= MaxNewFiles
    /\ Len(existingMedia) + Len(newFiles') <= MaxMedia
    /\ UNCHANGED <<blogsTable, storage, nextId, blogs, blogsStale, editingBlog,
                   publish, existingMedia, mut, submits, pageData>>
    /\ UNCHANGED <<content, user>>
    /\ UNCHANGED <<shopVars, adminVars>>

\* a step that raises no toast
Quiet == toasts' = <<>>

(* resetForm, BlogsManagement.tsx:43-50 *)
resetFormState ==
    /\ content' = <<>>
    /\ publish' = TRUE
    /\ editingBlog' = NoBlog
    /\ existingMedia' = <<>>
    /\ newFiles' = <<>>

\* the Cancel edit button (lines 435-443) is rendered only while editing
resetForm ==
    /\ ~isLoading
    /\ editingBlog # NoBlog
    /\ resetFormState
    /\ Quiet
    /\ UNCHANGED <<blogsTable, storage, nextId, blogs, blogsStale, mut, submits, pageData>>
    /\ UNCHANGED user
    /\ UNCHANGED <<shopVars, adminVars>>

(* handleEdit, BlogsManagement.tsx:227-234; blog is an entry of the feed *)
\* blog.media || []
MediaOrEmpty(media) == IF IsArray(media) THEN media.items ELSE <<>>

handleEdit(blog) ==
    /\ ~isLoading
    /\ editingBlog' = [id |-> blog.id]      \* only its id is ever read (line 165)
    /\ content' = blog.content
    /\ publish' = blog.is_published
    /\ existingMedia' = MediaOrEmpty(blog.media)
    /\ newFiles' = <<>>
    /\ Quiet
    /\ UNCHANGED <<blogsTable, storage, nextId, blogs, blogsStale, mut, submits, pageData>>
    /\ UNCHANGED user
    /\ UNCHANGED <<shopVars, adminVars>>

(* handleRemoveExistingMedia / handleRemoveNewFile, lines 236-242 *)
handleRemoveExistingMedia(index) ==
    /\ ~isLoading
    /\ index \in 1..Len(existingMedia)
    /\ existingMedia' = RemoveAt(existingMedia, index)
    /\ Quiet
    /\ UNCHANGED <<blogsTable, storage, nextId, blogs, blogsStale, editingBlog,
                   publish, newFiles, mut, submits, pageData>>
    /\ UNCHANGED <<content, user>>
    /\ UNCHANGED <<shopVars, adminVars>>

handleRemoveNewFile(index) ==
    /\ ~isLoading
    /\ index \in 1..Len(newFiles)
    /\ newFiles' = RemoveAt(newFiles, index)
    /\ Quiet
    /\ UNCHANGED <<blogsTable, storage, nextId, blogs, blogsStale, editingBlog,
                   publish, existingMedia, mut, submits, pageData>>
    /\ UNCHANGED <<content, user>>
    /\ UNCHANGED <<shopVars, adminVars>>

\* the Content textarea, lines 278-285; a text is a sequence of characters
setContent(text) ==
    /\ ~isLoading
    /\ content # text
    /\ content' = text
    /\ Quiet
    /\ UNCHANGED <<blogsTable, storage, nextId, blogs, blogsStale, editingBlog, publish,
                   existingMedia, newFiles, mut, submits, pageData, user>>
    /\ UNCHANGED <<shopVars, adminVars>>

\* the Publish immediately switch, lines 308-312
setPublish(checked) ==
    /\ ~isLoading
    /\ publish' = checked
    /\ publish # checked
    /\ Quiet
    /\ UNCHANGED <<blogsTable, storage, nextId, blogs, blogsStale, editingBlog,
                   existingMedia, newFiles, mut, submits, pageData>>
    /\ UNCHANGED <<content, user>>
    /\ UNCHANGED <<shopVars, adminVars>>

----------------------------------------------------------------------------
(* The stored media cell and JSON.  A cell is a JS value: an array, null,  *)
(* a number, or a string; a string is a sequence of JSON tokens, where an  *)
(* "obj" token stands for the object literal of one media item.            *)

JsNumber == [js |-> "number"]
JsString(text) == [js |-> "string", text |-> text]
IsString(v) == "js" \in DOMAIN v /\ v.js = "string"

Tok(t) == [tok |-> t]
ObjTok(item) == [tok |-> "obj", val |-> item]

\* JSON.parse over tokens: value ::= null | number | object | [ ] | [ value {, value} ]
ParseFail == [ok |-> FALSE, val |-> JsNull, rest |-> <<>>]
ParseOk(val, rest) == [ok |-> TRUE, val |-> val, rest |-> rest]

RECURSIVE ParseValue(_), ParseElements(_, _)
ParseValue(s) ==
    IF s = <<>> THEN ParseFail
    ELSE LET h == Head(s) IN
         CASE h.tok = "null" -> ParseOk(JsNull, Tail(s))
           [] h.tok = "num"  -> ParseOk(JsNumber, Tail(s))
           [] h.tok = "obj"  -> ParseOk(h.val, Tail(s))
           [] h.tok = "["    ->
                IF Tail(s) # <<>> /\ Head(Tail(s)).tok = "]"
                THEN ParseOk(JsArray(<<>>), Tail(Tail(s)))
                ELSE ParseElements(Tail(s), <<>>)
           [] OTHER -> ParseFail
ParseElements(s, acc) ==
    LET r == ParseValue(s) IN
    IF ~r.ok \/ r.rest = <<>> THEN ParseFail
    ELSE CASE Head(r.rest).tok = "," -> ParseElements(Tail(r.rest), Append(acc, r.val))
           [] Head(r.rest).tok = "]" -> ParseOk(JsArray(Append(acc, r.val)), Tail(r.rest))
           [] OTHER -> ParseFail

\* JSON.parse(text): ok = FALSE stands for the SyntaxError it throws
JSONParse(text) ==
    LET r == ParseValue(text) IN
    IF r.ok /\ r.rest = <<>> THEN [ok |-> TRUE, val |-> r.val]
    ELSE [ok |-> FALSE, val |-> JsNull]

\* the catch block of the parser dropped: the SyntaxError escapes
parseMediaNoCatch(cell) ==
    IF IsArray(cell) THEN [ok |-> TRUE, media |-> cell]
    ELSE IF IsString(cell)
         THEN LET r == JSONParse(cell.text) IN [ok |-> r.ok, media |-> r.val]
         ELSE [ok |-> TRUE, media |-> JsArray(<<>>)]

\* the parser decodes first and passes arrays through only on failure
parseMediaDecodeOnly(cell) ==
    IF IsString(cell)
    THEN LET r == JSONParse(cell.text) IN
         [ok |-> TRUE, media |-> IF r.ok THEN r.val ELSE JsArray(<<>>)]
    ELSE [ok |-> TRUE, media |-> JsArray(<<>>)]

\* the safe media parser: BlogsManagement.tsx:66-73 and Blog.tsx:66-76.
\* ok = FALSE would be an error escaping the try block.
parseMedia(cell) ==
    IF IsArray(cell) THEN [ok |-> TRUE, media |-> cell]
    ELSE IF IsString(cell)
         THEN LET r == JSONParse(cell.text) IN
              [ok |-> TRUE, media |-> IF r.ok THEN r.val ELSE JsArray(<<>>)]
         ELSE [ok |-> TRUE, media |-> JsArray(<<>>)]

(* queryFn of the admin-blogs query, BlogsManagement.tsx:57-82 *)
RECURSIVE mapRows(_)
mapRows(data) ==
    IF data = <<>> THEN [ok |-> TRUE, rows |-> <<>>]
    ELSE LET p == parseMedia(Head(data).media)
             rest == mapRows(Tail(data)) IN
         IF p.ok /\ rest.ok
         THEN [ok |-> TRUE,
               rows |-> <<[Head(data) EXCEPT !.media = p.media]>> \o rest.rows]
         ELSE [ok |-> FALSE, rows |-> <<>>]

\* .eq("is_published", true)
IsPublished(b) == b.is_published

\* the list query with the filter of the public page: drafts are not listed
adminQueryFnPublishedOnly ==
    /\ user
    /\ LET r == mapRows(SelectSeq(blogsTable, IsPublished)) IN
       blogs' = IF r.ok THEN [status |-> "success", data |-> r.rows]
                ELSE [status |-> "error", data |-> blogs.data]
    /\ blogsStale' = FALSE
    /\ Quiet
    /\ UNCHANGED <<blogsTable, storage, nextId, editingBlog, publish,
                   existingMedia, newFiles, mut, submits, pageData>>
    /\ UNCHANGED <<content, user>>
    /\ UNCHANGED <<shopVars, adminVars>>

adminQueryFn ==
    /\ user                                  \* enabled: !!user
    /\ LET r == mapRows(blogsTable) IN
       blogs' = IF r.ok THEN [status |-> "success", data |-> r.rows]
                ELSE [status |-> "error", data |-> blogs.data]
    /\ blogsStale' = FALSE
    /\ Quiet
    /\ UNCHANGED <<blogsTable, storage, nextId, editingBlog, publish,
                   existingMedia, newFiles, mut, submits, pageData>>
    /\ UNCHANGED <<content, user>>
    /\ UNCHANGED <<shopVars, adminVars>>

(* queryFn of the blogs query of the public page, Blog.tsx:16-28 *)
blogQueryFn ==
    /\ pageData' = [status |-> "success", data |-> SelectSeq(blogsTable, IsPublished)]
    /\ Quiet
    /\ UNCHANGED <<blogsTable, storage, nextId, blogs, blogsStale, editingBlog,
                   publish, existingMedia, newFiles, mut, submits>>
    /\ UNCHANGED <<content, user>>
    /\ UNCHANGED <<shopVars, adminVars>>

(* render of one card of the public page, Blog.tsx:62-83 *)
IsOfType(m, type) == "type" \in DOMAIN m /\ m.type = type    \* m?.type === type
renderCard(blog) ==
    LET p == parseMedia(blog.media) IN
    IF p.ok /\ IsArray(p.media)
    THEN [ok |-> TRUE, id |-> blog.id, media |-> p.media,
          images |-> SelectSeq(p.media.items, LAMBDA m : IsOfType(m, "image")),
          videos |-> SelectSeq(p.media.items, LAMBDA m : IsOfType(m, "video")),
          audios |-> SelectSeq(p.media.items, LAMBDA m : IsOfType(m, "audio"))]
    ELSE [ok |-> FALSE, id |-> blog.id, media |-> p.media, images |-> <<>>, videos |-> <<>>, audios |-> <<>>]

\* the cards rendered by blogs.map (Blog.tsx:62); an error in one card fails the render
renderPage(data) ==
    [ok |-> \A i \in 1..Len(data) : renderCard(data[i]).ok,
     cards |-> [i \in 1..Len(data) |-> renderCard(data[i])]]

(* one card of the feed of the admin panel, BlogsManagement.tsx:452-457: *)
(* (blog.media || []) and the filters, which read m.type                  *)
IsNullish(v) == v = JsNull
feedCard(blog) ==
    LET media == IF IsNullish(blog.media) THEN JsArray(<<>>) ELSE blog.media IN
    IF IsArray(media) /\ \A i \in 1..Len(media.items) : ~IsNullish(media.items[i])
    THEN [ok |-> TRUE, id |-> blog.id,
          images |-> SelectSeq(media.items, LAMBDA m : IsOfType(m, "image")),
          videos |-> SelectSeq(media.items, LAMBDA m : IsOfType(m, "video")),
          audios |-> SelectSeq(media.items, LAMBDA m : IsOfType(m, "audio"))]
    ELSE [ok |-> FALSE, id |-> blog.id, images |-> <<>>, videos |-> <<>>, audios |-> <<>>]

\* the cards rendered by blogs.map (line 452); an error in one card fails the render
renderFeed(data) ==
    [ok |-> \A i \in 1..Len(data) : feedCard(data[i]).ok,
     cards |-> [i \in 1..Len(data) |-> feedCard(data[i])]]

----------------------------------------------------------------------------
(* uploadFiles and the create / update / delete mutations of the editor *)

Idle == [pc |-> "idle"]
StorageError == "storage error"      \* uploadError.message
DatabaseError == "database error"    \* error.message of the blogs table call

\* lines 104-107: classification by the declared MIME prefix, default image
mediaType(file) ==
    IF file.kind = "video" THEN "video"
    ELSE IF file.kind = "audio" THEN "audio"
    ELSE "image"

\* String.prototype.trim
IsSpace(c) == c = " "
RECURSIVE trimStart(_)
trimStart(s) == IF s # <<>> /\ IsSpace(Head(s)) THEN trimStart(Tail(s)) ELSE s
RECURSIVE trimEnd(_)
trimEnd(s) == IF s # <<>> /\ IsSpace(s[Len(s)]) THEN trimEnd(SubSeq(s, 1, Len(s) - 1)) ELSE s
trim(s) == trimEnd(trimStart(s))

\* line 191: editingBlog ? updateBlogMutation.mutate() : createBlogMutation.mutate()
mutationKind == IF editingBlog # NoBlog THEN "update" ELSE "create"

\* the checks at the head of mutationFn, lines 117-118 and 146-147
NoError == ""
validationError ==
    IF mutationKind = "create" /\ ~user THEN "Not authenticated"
    ELSE IF mutationKind = "update" /\ editingBlog = NoBlog THEN "No blog selected"
    ELSE IF trim(content) = <<>> THEN "Content is required"
    ELSE NoError

\* onError of both mutations (lines 141, 174)
mutationError(message) ==
    /\ mut' = Idle
    /\ toasts' = <<message>>

\* handleSubmit (lines 189-192) and the start of mutationFn (lines 116-120 and
\* 145-149): the mutation works on the values of the render that submitted
handleSubmit ==
    /\ ~isLoading
    /\ submits < MaxSubmits
    /\ submits' = submits + 1
    /\ mut.pc = "idle"                       \* the button is disabled while isSubmitting
    /\ content # <<>>                        \* the textarea is required (line 284)
    /\ Len(storage) + Len(newFiles) <= MaxStorage
    /\ editingBlog = NoBlog => nextId <= MaxIds
    /\ IF validationError # NoError
       THEN mutationError(validationError)
       ELSE /\ mut' = [pc |-> "uploading",
                       kind |-> mutationKind,
                       id |-> editingBlog.id,
                       content |-> content,
                       files |-> newFiles,
                       existing |-> existingMedia,
                       publish |-> publish,
                       uploaded |-> <<>>]
            /\ Quiet
    /\ UNCHANGED <<blogsTable, storage, nextId, blogs, blogsStale, editingBlog,
                   publish, existingMedia, newFiles, pageData>>
    /\ UNCHANGED <<content, user>>
    /\ UNCHANGED <<shopVars, adminVars>>

\* the file the loop of uploadFiles (line 92) is at
uploadIndex == Len(mut.uploaded) + 1
uploadPending == mut.pc = "uploading" /\ uploadIndex <= Len(mut.files)

\* line 100 dropped: the failed upload is ignored, its item is pushed and the
\* loop goes on with the next file
uploadFailsIgnored ==
    /\ uploadPending
    /\ LET file == mut.files[uploadIndex] IN
       mut' = [mut EXCEPT !.uploaded =
                  Append(@, MediaItem(mediaType(file), Len(storage) + 1))]
    /\ Quiet
    /\ UNCHANGED <<blogsTable, storage, nextId, blogs, blogsStale, editingBlog,
                   publish, existingMedia, newFiles, submits, pageData>>
    /\ UNCHANGED <<content, user>>
    /\ UNCHANGED <<shopVars, adminVars>>

\* one pass of the loop of uploadFiles, lines 92-110, the upload succeeding
uploadSucceeds ==
    /\ uploadPending
    /\ LET file == mut.files[uploadIndex] IN
       /\ storage' = Append(storage, file)
       /\ mut' = [mut EXCEPT !.uploaded =
                     Append(@, MediaItem(mediaType(file), Len(storage) + 1))]
    /\ Quiet
    /\ UNCHANGED <<blogsTable, nextId, blogs, blogsStale, editingBlog,
                   publish, existingMedia, newFiles, submits, pageData>>
    /\ UNCHANGED <<content, user>>
    /\ UNCHANGED <<shopVars, adminVars>>

\* line 100: the upload fails, uploadFiles throws uploadError
uploadFails ==
    /\ uploadPending
    /\ mutationError(StorageError)
    /\ UNCHANGED <<blogsTable, storage, nextId, blogs, blogsStale, editingBlog,
                   publish, existingMedia, newFiles, submits, pageData>>
    /\ UNCHANGED <<content, user>>
    /\ UNCHANGED <<shopVars, adminVars>>

writePending == mut.pc = "uploading" /\ uploadIndex > Len(mut.files)

\* the payloads of lines 124-131 and 154-160
createPayload ==
    [id |-> nextId, content |-> mut.content, media |-> JsArray(mut.uploaded),
     is_published |-> mut.publish]
updatePayloadNewFirst ==
    [content |-> mut.content, media |-> JsArray(mut.uploaded \o mut.existing),
     is_published |-> mut.publish]
updatePayload ==
    [content |-> mut.content, media |-> JsArray(mut.existing \o mut.uploaded),
     is_published |-> mut.publish]

\* an update that appends the media of the payload to the media stored
updateRowsMergeMedia(table, id, payload) ==
    [i \in 1..Len(table) |->
        IF table[i].id = id
        THEN [table[i] EXCEPT !.content = payload.content,
                              !.media = IF IsArray(@) THEN JsArray(@.items \o payload.media.items)
                                        ELSE payload.media,
                              !.is_published = payload.is_published]
        ELSE table[i]]

\* supabase.from("blogs").update(payload).eq("id", id)
updateRows(table, id, payload) ==
    [i \in 1..Len(table) |->
        IF table[i].id = id
        THEN [table[i] EXCEPT !.content = payload.content, !.media = payload.media,
                              !.is_published = payload.is_published]
        ELSE table[i]]

\* onSuccess of both mutations (lines 136-140, 169-173)
mutationSuccess(message) ==
    /\ mut' = Idle
    /\ toasts' = <<message>>
    /\ resetFormState
    /\ blogsStale' = TRUE

\* lines 133-134 / 162-167, the table call succeeding
writeSucceeds ==
    /\ writePending
    /\ IF mut.kind = "create"
       THEN /\ blogsTable' = <<createPayload>> \o blogsTable
            /\ nextId' = nextId + 1
            /\ mutationSuccess("Blog created successfully")
       ELSE /\ blogsTable' = updateRows(blogsTable, mut.id, updatePayload)
            /\ nextId' = nextId
            /\ mutationSuccess("Blog updated successfully")
    /\ UNCHANGED <<storage, blogs, submits, pageData>>
    /\ UNCHANGED user
    /\ UNCHANGED <<shopVars, adminVars>>

\* lines 134 / 167: the table call fails
writeFails ==
    /\ writePending
    /\ mutationError(DatabaseError)
    /\ UNCHANGED <<blogsTable, storage, nextId, blogs, blogsStale, editingBlog,
                   publish, existingMedia, newFiles, submits, pageData>>
    /\ UNCHANGED <<content, user>>
    /\ UNCHANGED <<shopVars, adminVars>>

\* lines 162-167 run by another session of the editor: its update reaches the table
sessionUpdate(id, payload) ==
    /\ blogsTable' = updateRows(blogsTable, id, payload)
    /\ blogsTable' # blogsTable
    /\ UNCHANGED <<storage, nextId, blogs, blogsStale, editingBlog, publish, existingMedia,
                   newFiles, mut, toasts, submits, pageData, content, user>>
    /\ UNCHANGED <<shopVars, adminVars>>

(* deleteBlogMutation, lines 177-187, from the Delete button of a feed entry *)
deleteBlogSucceeds(id) ==
    /\ ~isLoading
    /\ blogsTable' = SelectSeq(blogsTable, LAMBDA b : b.id # id)
    /\ toasts' = <<"Blog deleted successfully">>
    /\ blogsStale' = TRUE
    /\ UNCHANGED <<storage, nextId, blogs, editingBlog, publish,
                   existingMedia, newFiles, mut, submits, pageData>>
    /\ UNCHANGED <<content, user>>
    /\ UNCHANGED <<shopVars, adminVars>>

deleteBlogFails(id) ==
    /\ ~isLoading
    /\ toasts' = <<"Failed to delete blog">>
    /\ UNCHANGED <<blogsTable, storage, nextId, blogs, blogsStale, editingBlog,
                   publish, existingMedia, newFiles, mut, submits, pageData>>
    /\ UNCHANGED <<content, user>>
    /\ UNCHANGED <<shopVars, adminVars>>

----------------------------------------------------------------------------
(* Checkout, Blog.tsx:182-417, and the product mutations of                *)
(* ProductsManagement.tsx:56-78                                            *)

NoProduct == [name |-> "", price |-> -2]    \* no row: the join yields products: null
NullPrice == -1                             \* a null price
Product(name, price) == [name |-> name, price |-> price, stock_count |-> 1, image_url |-> ""]
ProductIds == {1, 2}
Prices == {NullPrice, 5, 10}
Quantities == {1, 2}
NotLoaded == [loaded |-> FALSE, data |-> <<>>]      \* cartItems === undefined
CheckoutPage == [page |-> "checkout"]

\* queryFn of the cart query, lines 192-204: cart_items with products (*)
cartRow(line) ==
    [product_id |-> line.product_id, quantity |-> line.quantity,
     products |-> products[line.product_id]]

cartQueryFn ==
    /\ href = CheckoutPage
    /\ cartItems' = [loaded |-> TRUE, data |-> [i \in 1..Len(cart_items) |-> cartRow(cart_items[i])]]
    /\ shopToasts' = <<>>
    /\ UNCHANGED <<products, cart_items, orders, order_items, processing, order, calls, href>>
    /\ UNCHANGED <<profiles, profile>>
    /\ UNCHANGED <<blogVars, adminVars>>

\* item.products?.price || 0
priceOrZero(item) ==
    IF item.products = NoProduct \/ item.products.price = NullPrice THEN 0
    ELSE item.products.price

\* the line amount with the quantity left out
lineAmountNoQuantity(item) == priceOrZero(item)

\* (item.products?.price || 0) * item.quantity, lines 231 and 318
lineAmount(item) == priceOrZero(item) * item.quantity

\* cartItems.reduce((sum, item) => sum + ..., 0), lines 230-233 and 317-320
RECURSIVE reduceTotal(_, _)
reduceTotal(items, sum) ==
    IF items = <<>> THEN sum
    ELSE reduceTotal(Tail(items), sum + lineAmount(Head(items)))

\* the total of the payment summary, lines 317-320: cartItems?.reduce(...) || 0
total == IF cartItems.loaded THEN reduceTotal(cartItems.data, 0) ELSE 0

\* the page shows the Send Order button: lines 323-332 and 401-409
checkoutRendered == href = CheckoutPage /\ cartItems.loaded /\ cartItems.data # <<>>

NoOrder == [pc |-> "idle"]

\* the Send Order button without disabled={processing}
handleCheckoutNotDisabled ==
    /\ checkoutRendered
    /\ Len(orders) < MaxOrders
    /\ processing' = TRUE
    /\ order' = [pc |-> "timer"]
    /\ shopToasts' = <<>>
    /\ UNCHANGED <<products, cart_items, orders, order_items, cartItems, calls, href>>
    /\ UNCHANGED <<profiles, profile>>
    /\ UNCHANGED <<blogVars, adminVars>>

(* handleCheckout, lines 310-315 *)
handleCheckout ==
    /\ checkoutRendered
    /\ ~processing                         \* the button is disabled while processing
    /\ Len(orders) < MaxOrders
    /\ processing' = TRUE
    /\ order' = [pc |-> "timer"]
    /\ shopToasts' = <<>>
    /\ UNCHANGED <<products, cart_items, orders, order_items, cartItems, calls, href>>
    /\ UNCHANGED <<profiles, profile>>
    /\ UNCHANGED <<blogVars, adminVars>>

Call(table, ok) == [table |-> table, ok |-> ok]

\* onError keeps processing set
orderErrorStaysProcessing ==
    /\ shopToasts' = <<"Failed to place order">>
    /\ processing' = processing
    /\ order' = NoOrder

\* onError, lines 304-307
orderError ==
    /\ shopToasts' = <<"Failed to place order">>
    /\ processing' = FALSE
    /\ order' = NoOrder

\* the timer fires: mutate() runs mutationFn on the cart of the current
\* render (lines 228-247); the orders insert succeeds
orderInsertSucceeds ==
    /\ order.pc = "timer"
    /\ cartItems.loaded
    /\ LET amount == reduceTotal(cartItems.data, 0)
           id == Len(orders) + 1
       IN /\ orders' = Append(orders, [id |-> id, total_amount |-> amount])
          /\ order' = [pc |-> "items", cart |-> cartItems.data, total |-> amount, id |-> id]
    /\ calls' = <<Call("orders", TRUE)>>
    /\ shopToasts' = <<>>
    /\ UNCHANGED <<products, cart_items, order_items, cartItems, processing, href>>
    /\ UNCHANGED <<profiles, profile>>
    /\ UNCHANGED <<blogVars, adminVars>>

\* line 247: the orders insert fails
orderInsertFails ==
    /\ order.pc = "timer"
    /\ cartItems.loaded
    /\ calls' = <<Call("orders", FALSE)>>
    /\ orderError
    /\ UNCHANGED <<products, cart_items, orders, order_items, cartItems, href>>
    /\ UNCHANGED <<profiles, profile>>
    /\ UNCHANGED <<blogVars, adminVars>>

\* lines 250-256
orderItem(item, id) ==
    [order_id |-> id,
     product_id |-> item.product_id,
     product_name |-> IF item.products = NoProduct THEN "" ELSE item.products.name,
     quantity |-> item.quantity,
     price |-> priceOrZero(item)]

\* lines 258-262: the order_items insert succeeds
itemsInsertSucceeds ==
    /\ order.pc = "items"
    /\ order_items' = order_items \o [i \in 1..Len(order.cart) |-> orderItem(order.cart[i], order.id)]
    /\ order' = [order EXCEPT !.pc = "clear"]
    /\ calls' = Append(calls, Call("order_items", TRUE))
    /\ shopToasts' = <<>>
    /\ UNCHANGED <<products, cart_items, orders, cartItems, processing, href>>
    /\ UNCHANGED <<profiles, profile>>
    /\ UNCHANGED <<blogVars, adminVars>>

\* line 262 dropped: the failed insert is ignored and the cart is cleared next
itemsInsertFailsIgnored ==
    /\ order.pc = "items"
    /\ order' = [order EXCEPT !.pc = "clear"]
    /\ calls' = Append(calls, Call("order_items", FALSE))
    /\ shopToasts' = <<>>
    /\ UNCHANGED <<products, cart_items, orders, order_items, cartItems, processing, href>>
    /\ UNCHANGED <<profiles, profile>>
    /\ UNCHANGED <<blogVars, adminVars>>

\* a compensating delete of the order row after the failed insert
itemsInsertFailsRollback ==
    /\ order.pc = "items"
    /\ calls' = Append(calls, Call("order_items", FALSE))
    /\ orders' = SelectSeq(orders, LAMBDA o : o.id # order.id)
    /\ orderError
    /\ UNCHANGED <<products, cart_items, order_items, cartItems, href>>
    /\ UNCHANGED <<profiles, profile>>
    /\ UNCHANGED <<blogVars, adminVars>>

\* line 262: the order_items insert fails
itemsInsertFails ==
    /\ order.pc = "items"
    /\ calls' = Append(calls, Call("order_items", FALSE))
    /\ orderError
    /\ UNCHANGED <<products, cart_items, orders, order_items, cartItems, href>>
    /\ UNCHANGED <<profiles, profile>>
    /\ UNCHANGED <<blogVars, adminVars>>

\* the decimal digits and the digits of a natural number
DigitValue == [c \in {"0", "1", "2", "3", "4", "5", "6", "7", "8", "9"} |->
                 CASE c = "0" -> 0 [] c = "1" -> 1 [] c = "2" -> 2 [] c = "3" -> 3
                   [] c = "4" -> 4 [] c = "5" -> 5 [] c = "6" -> 6 [] c = "7" -> 7
                   [] c = "8" -> 8 [] c = "9" -> 9]
IsDigit(c) == c \in DOMAIN DigitValue
RECURSIVE DigitsOf(_)
DigitsOf(n) ==
    LET d == CHOOSE c \in DOMAIN DigitValue : DigitValue[c] = n % 10 IN
    IF n < 10 THEN <<d>> ELSE DigitsOf(n \div 10) \o <<d>>

\* profile query, lines 209-223
profileQueryFn ==
    /\ href = CheckoutPage
    /\ user
    /\ ~profile.loaded
    /\ profile' = [loaded |-> TRUE, data |-> profiles]
    /\ shopToasts' = <<>>
    /\ UNCHANGED <<products, cart_items, orders, order_items, cartItems, processing, order,
                   calls, href, profiles>>
    /\ UNCHANGED <<blogVars, adminVars>>

\* texts are sequences of characters; the emoji of line 279 is one character
CartEmoji == "U+1F6D2"
Letters ==
    {"A", "B", "C", "D", "E", "F", "G", "H", "I", "J", "K", "L", "M", "N", "O", "P", "Q", "R", "S", "T", "U", "V", "W", "X", "Y", "Z",
     "a", "b", "c", "d", "e", "f", "g", "h", "i", "j", "k", "l", "m", "n", "o", "p", "q", "r", "s", "t", "u", "v", "w", "x", "y", "z"}
\* the characters encodeURIComponent leaves as they are (ECMA-262 uriUnreserved)
uriUnreserved == Letters \cup DOMAIN DigitValue \cup {"-", "_", ".", "!", "~", "*", "'", "(", ")"}
\* the bytes of the UTF-8 encoding of the other characters of the message, in hexadecimal
Utf8(c) ==
    CASE c = " " -> <<<<"2", "0">>>>
      [] c = "\n" -> <<<<"0", "A">>>>
      [] c = "$" -> <<<<"2", "4">>>>
      [] c = "/" -> <<<<"2", "F">>>>
      [] c = ":" -> <<<<"3", "A">>>>
      [] c = CartEmoji -> <<<<"F", "0">>, <<"9", "F">>, <<"9", "B">>, <<"9", "2">>>>
RECURSIVE escape(_)
escape(bytes) ==
    IF bytes = <<>> THEN <<>> ELSE <<"%">> \o Head(bytes) \o escape(Tail(bytes))
RECURSIVE Encode(_, _)
Encode(text, unescaped) ==
    IF text = <<>> THEN <<>>
    ELSE IF Len(text) = 1
    THEN (IF Head(text) \in unescaped THEN text ELSE escape(Utf8(Head(text))))
    ELSE LET half == Len(text) \div 2
         IN Encode(SubSeq(text, 1, half), unescaped)
            \o Encode(SubSeq(text, half + 1, Len(text)), unescaped)
encodeURI(text) ==
    Encode(text, uriUnreserved \cup {";", "/", "?", ":", "@", "&", "=", "+", "$", ",", "#"})
encodeURIComponent(text) == Encode(text, uriUnreserved)

\* total.toFixed(2) of a whole amount, line 293
toFixed2(amount) == DigitsOf(amount) \o <<".", "0", "0">>
RECURSIVE join(_, _)
join(lines, separator) ==
    IF lines = <<>> THEN <<>>
    ELSE IF Len(lines) = 1 THEN Head(lines)
    ELSE Head(lines) \o separator \o join(Tail(lines), separator)
NotAvailable == <<"N", "/", "A">>
\* profile?.name || "N/A", lines 281-283
profileField(field) ==
    IF profile.loaded /\ profile.data[field] # <<>> THEN profile.data[field] ELSE NotAvailable
\* lines 287-290: product names are single characters
itemLine(item) ==
    <<"-", " ">>
    \o (IF item.products.name # "" THEN <<item.products.name>> ELSE <<"I", "t", "e", "m">>)
    \o <<" ", "(", "x">>
    \o DigitsOf(IF item.quantity # 0 THEN item.quantity ELSE 1)
    \o <<")">>
\* the message of onSuccess, lines 278-294
orderMessage(amount) ==
    <<CartEmoji, " ", "*", "N", "e", "w", " ", "O", "r", "d", "e", "r", " ", "R", "e", "c",
      "e", "i", "v", "e", "d", "*", "\n", "\n">>
    \o <<"*", "C", "u", "s", "t", "o", "m", "e", "r", " ", "D", "e", "t", "a", "i", "l", "s",
      "*", "\n">>
    \o <<"N", "a", "m", "e", ":", " ">> \o profileField("name") \o <<"\n">>
    \o <<"P", "h", "o", "n", "e", ":", " ">> \o profileField("phone") \o <<"\n">>
    \o <<"A", "d", "d", "r", "e", "s", "s", ":", " ">> \o profileField("address") \o <<"\n", "\n">>
    \o <<"*", "O", "r", "d", "e", "r", " ", "I", "t", "e", "m", "s", "*", "\n">>
    \o join([i \in 1..Len(cartItems.data) |-> itemLine(cartItems.data[i])], <<"\n">>)
    \o <<"\n", "\n", "*", "T", "o", "t", "a", "l", " ", "A", "m", "o", "u", "n", "t", ":",
      "*", " ", "$">> \o toFixed2(amount) \o <<"\n", "\n">>
    \o <<"P", "l", "e", "a", "s", "e", " ", "c", "o", "n", "f", "i", "r", "m", " ", "t", "h",
      "e", " ", "o", "r", "d", "e", "r", ".">>
ADMIN_WHATSAPP == <<"9", "4", "7", "4", "1", "1", "6", "7", "1", "4", "3">>
\* the URL of lines 297-299
whatsAppUrl(amount) ==
    [page |-> "wa.me", phone |-> ADMIN_WHATSAPP, total |-> amount,
     text |-> encodeURIComponent(orderMessage(amount))]

\* lines 265-272 and onSuccess, lines 275-302: the cart delete succeeds, the
\* message is composed and the browser leaves for the chat link
cartClearSucceeds ==
    /\ order.pc = "clear"
    /\ cart_items' = <<>>
    /\ calls' = Append(calls, Call("cart_items", TRUE))
    /\ shopToasts' = <<"Order placed successfully!">>
    /\ href' = whatsAppUrl(order.total)
    /\ order' = NoOrder
    /\ UNCHANGED <<products, orders, order_items, cartItems, processing>>
    /\ UNCHANGED <<profiles, profile>>
    /\ UNCHANGED <<blogVars, adminVars>>

\* line 270: the cart delete fails
cartClearFails ==
    /\ order.pc = "clear"
    /\ calls' = Append(calls, Call("cart_items", FALSE))
    /\ orderError
    /\ UNCHANGED <<products, cart_items, orders, order_items, cartItems, href>>
    /\ UNCHANGED <<profiles, profile>>
    /\ UNCHANGED <<blogVars, adminVars>>

\* a product update that also rewrites the order lines of the product
productUpdateCascades(id, data) ==
    /\ products[id] # NoProduct
    /\ products[id] # data
    /\ products' = [products EXCEPT ![id] = data]
    /\ order_items' = [i \in 1..Len(order_items) |->
                          IF order_items[i].product_id = id
                          THEN [order_items[i] EXCEPT !.product_name = data.name,
                                                      !.price = data.price]
                          ELSE order_items[i]]
    /\ shopToasts' = <<"Product updated successfully">>
    /\ UNCHANGED <<cart_items, orders, cartItems, processing, order, calls, href>>
    /\ UNCHANGED <<profiles, profile>>
    /\ UNCHANGED <<blogVars, adminVars>>

(* updateMutation, ProductsManagement.tsx:56-67: update(data).eq("id", id) *)
productUpdate(id, data) ==
    /\ products[id] # NoProduct
    /\ products[id] # data
    /\ products' = [products EXCEPT ![id] = data]
    /\ shopToasts' = <<"Product updated successfully">>
    /\ UNCHANGED <<cart_items, orders, order_items, cartItems, processing, order, calls, href>>
    /\ UNCHANGED <<profiles, profile>>
    /\ UNCHANGED <<blogVars, adminVars>>

(* deleteMutation, ProductsManagement.tsx:69-78: delete().eq("id", id) *)
productDelete(id) ==
    /\ products[id] # NoProduct
    /\ products' = [products EXCEPT ![id] = NoProduct]
    /\ shopToasts' = <<"Product deleted successfully">>
    /\ UNCHANGED <<cart_items, orders, order_items, cartItems, processing, order, calls, href>>
    /\ UNCHANGED <<profiles, profile>>
    /\ UNCHANGED <<blogVars, adminVars>>

----------------------------------------------------------------------------
(* ProductsManagement.tsx: the product form.  The text of a number field is *)
(* a sequence of characters; a product name is a string.                    *)


\* a JS number: a natural number, or an integer part and fraction digits; NaN
\* is a value apart from the numbers and from null
NaN == -3
Fraction(int, frac) == [int |-> int, frac |-> frac]
NumberOf(int, frac) ==
    IF \A i \in 1..Len(frac) : frac[i] = "0" THEN int ELSE Fraction(int, frac)

\* the longest prefix of digits of s, and its value
RECURSIVE DigitsPrefix(_)
DigitsPrefix(s) ==
    IF s # <<>> /\ IsDigit(Head(s)) THEN <<Head(s)>> \o DigitsPrefix(Tail(s)) ELSE <<>>
RECURSIVE DigitsValue(_)
DigitsValue(ds) ==
    IF ds = <<>> THEN 0 ELSE 10 * DigitsValue(SubSeq(ds, 1, Len(ds) - 1)) + DigitValue[ds[Len(ds)]]
Drop(s, n) == SubSeq(s, n + 1, Len(s))

\* parseInt(text): leading white space skipped, the digits that follow read;
\* NaN if there is none (texts without sign)
parseInt(text) ==
    LET ds == DigitsPrefix(trimStart(text)) IN
    IF ds = <<>> THEN NaN ELSE DigitsValue(ds)

\* parseFloat(text): digits, then "." and digits; NaN if no digit was read
\* (texts without sign and exponent)
parseFloat(text) ==
    LET t == trimStart(text)
        int == DigitsPrefix(t)
        rest == Drop(t, Len(int))
        frac == IF rest # <<>> /\ Head(rest) = "." THEN DigitsPrefix(Tail(rest)) ELSE <<>>
    IN IF int = <<>> /\ frac = <<>> THEN NaN ELSE NumberOf(DigitsValue(int), frac)

\* Number.prototype.toString of the numbers above
numberToString(v) ==
    IF v \in Nat THEN DigitsOf(v) ELSE DigitsOf(v.int) \o <<".">> \o v.frac

\* the value of an <input type="number"> (lines 190-207): the text typed if
\* it is a valid floating-point number, the empty string otherwise
IsValidNumber(text) ==
    LET int == DigitsPrefix(text)
        rest == Drop(text, Len(int))
    IN \/ int # <<>> /\ rest = <<>>
       \/ /\ rest # <<>> /\ Head(rest) = "."
          /\ Tail(rest) # <<>> /\ DigitsPrefix(Tail(rest)) = Tail(rest)
numberInputValue(text) == IF IsValidNumber(text) THEN text ELSE <<>>

\* JSON of the request body: NaN is sent as null
toJSON(v) == IF v = NaN THEN NullPrice ELSE v

\* useState of editingProduct and formData, lines 17-28
NoSelection == [id |-> 0]
EmptyForm == [name |-> "", price |-> <<>>, stock_count |-> <<>>, image_url |-> ""]

\* the state of the shop client, which the product panel leaves alone
shopClient == <<cart_items, orders, order_items, cartItems, processing, order, calls,
                shopToasts, href, profiles, profile>>

(* queryFn of the admin-products query, lines 32-40 *)
ListRow(id, row) ==
    [id |-> id, name |-> row.name, price |-> row.price,
     stock_count |-> row.stock_count, image_url |-> row.image_url]
\* select("*").order("created_at", { ascending: false }): ids are handed out in creation order
RECURSIVE selectProducts(_, _)
selectProducts(table, id) ==
    IF id = 0 THEN <<>>
    ELSE (IF table[id] # NoProduct THEN <<ListRow(id, table[id])>> ELSE <<>>)
            \o selectProducts(table, id - 1)

productsQueryFn ==
    /\ productList' = [status |-> "success",
                       data |-> selectProducts(products, Cardinality(ProductIds))]
    /\ productsStale' = FALSE
    /\ adminToasts' = <<>>
    /\ UNCHANGED <<products, nextProductId, dialogOpen, editingProduct, formData,
                   mutations, mutationId, uploads>>
    /\ UNCHANGED <<blogVars, shopClient>>

(* resetForm, lines 80-92 *)
Products_resetForm ==
    /\ formData' = EmptyForm
    /\ editingProduct' = NoSelection

\* the Add Product button, lines 130-135: resetForm(), and the trigger opens the dialog
addProduct ==
    /\ ~dialogOpen
    /\ Products_resetForm
    /\ dialogOpen' = TRUE
    /\ adminToasts' = <<>>
    /\ UNCHANGED <<products, nextProductId, productList, productsStale, mutations, mutationId, uploads>>
    /\ UNCHANGED <<blogVars, shopClient>>

\* onOpenChange={setDialogOpen}, line 129: the dialog is dismissed
closeDialog ==
    /\ dialogOpen
    /\ dialogOpen' = FALSE
    /\ adminToasts' = <<>>
    /\ UNCHANGED <<products, nextProductId, productList, productsStale, editingProduct,
                   formData, mutations, mutationId, uploads>>
    /\ UNCHANGED <<blogVars, shopClient>>

(* handleEdit, lines 109-122; product is a row of the list *)
Products_handleEdit(product) ==
    /\ productList.status = "success"
    /\ product.price # NullPrice /\ product.stock_count # NullPrice   \* null.toString() throws
    /\ editingProduct' = [id |-> product.id]
    /\ formData' = [name |-> product.name,
                    price |-> numberToString(product.price),
                    stock_count |-> numberToString(product.stock_count),
                    image_url |-> product.image_url]
    /\ dialogOpen' = TRUE
    /\ adminToasts' = <<>>
    /\ UNCHANGED <<products, nextProductId, productList, productsStale, mutations, mutationId, uploads>>
    /\ UNCHANGED <<blogVars, shopClient>>

\* the inputs of the form, lines 146-207: setFormData({ ...formData, field: value })
setName(text) ==
    /\ dialogOpen
    /\ formData.name # text
    /\ formData' = [formData EXCEPT !.name = text]
    /\ adminToasts' = <<>>
    /\ UNCHANGED <<products, nextProductId, productList, productsStale, dialogOpen,
                   editingProduct, mutations, mutationId, uploads>>
    /\ UNCHANGED <<blogVars, shopClient>>

setPrice(text) ==
    /\ dialogOpen
    /\ formData.price # numberInputValue(text)
    /\ formData' = [formData EXCEPT !.price = numberInputValue(text)]
    /\ adminToasts' = <<>>
    /\ UNCHANGED <<products, nextProductId, productList, productsStale, dialogOpen,
                   editingProduct, mutations, mutationId, uploads>>
    /\ UNCHANGED <<blogVars, shopClient>>

setStockCount(text) ==
    /\ dialogOpen
    /\ formData.stock_count # numberInputValue(text)
    /\ formData' = [formData EXCEPT !.stock_count = numberInputValue(text)]
    /\ adminToasts' = <<>>
    /\ UNCHANGED <<products, nextProductId, productList, productsStale, dialogOpen,
                   editingProduct, mutations, mutationId, uploads>>
    /\ UNCHANGED <<blogVars, shopClient>>

\* the form's constraint validation: the inputs marked required, lines 149, 194, 206
formIsValid ==
    /\ formData.name # ""
    /\ formData.price # <<>>
    /\ formData.stock_count # <<>>

\* handleSubmit, lines 96-100
submitData ==
    [name |-> formData.name,
     price |-> parseFloat(formData.price),
     stock_count |-> parseInt(formData.stock_count),
     image_url |-> formData.image_url]

(* handleSubmit, lines 94-107: the submit button is never disabled *)
Products_handleSubmit ==
    /\ dialogOpen
    /\ formIsValid
    /\ mutationId < MaxMutations
    /\ mutationId' = mutationId + 1
    /\ Len(mutations) < MaxPending
    /\ mutations' = Append(mutations,
                       IF editingProduct # NoSelection
                       THEN [kind |-> "update", id |-> editingProduct.id, data |-> submitData]
                       ELSE [kind |-> "create", id |-> 0, data |-> submitData])
    /\ adminToasts' = <<>>
    /\ UNCHANGED <<products, nextProductId, productList, productsStale, dialogOpen,
                   editingProduct, formData, uploads>>
    /\ UNCHANGED <<blogVars, shopClient>>

\* the Delete button of a row of the list, lines 299-305
deleteProduct(id) ==
    /\ productList.status = "success"
    /\ mutationId < MaxMutations
    /\ mutationId' = mutationId + 1
    /\ Len(mutations) < MaxPending
    /\ mutations' = Append(mutations, [kind |-> "delete", id |-> id, data |-> NoProduct])
    /\ adminToasts' = <<>>
    /\ UNCHANGED <<products, nextProductId, productList, productsStale, dialogOpen,
                   editingProduct, formData, uploads>>
    /\ UNCHANGED <<blogVars, shopClient>>

\* the row the store keeps for the data sent
storedRow(data) ==
    [name |-> data.name, price |-> toJSON(data.price),
     stock_count |-> toJSON(data.stock_count), image_url |-> data.image_url]

\* onSuccess of createMutation and updateMutation, lines 48-53 and 61-66
formMutationSuccess(message) ==
    /\ productsStale' = TRUE
    /\ adminToasts' = <<message>>
    /\ dialogOpen' = FALSE
    /\ Products_resetForm

(* createMutation, lines 43-54 *)
createMutationSucceeds(i) ==
    /\ i \in 1..Len(mutations)
    /\ mutations[i].kind = "create"
    /\ nextProductId \in ProductIds
    /\ products' = [products EXCEPT ![nextProductId] = storedRow(mutations[i].data)]
    /\ nextProductId' = nextProductId + 1
    /\ formMutationSuccess("Product created successfully")
    /\ mutations' = RemoveAt(mutations, i)
    /\ UNCHANGED <<productList, uploads>>
    /\ UNCHANGED mutationId
    /\ UNCHANGED <<blogVars, shopClient>>

(* updateMutation, lines 56-67: update(data).eq("id", id) *)
updateMutationSucceeds(i) ==
    /\ i \in 1..Len(mutations)
    /\ mutations[i].kind = "update"
    /\ LET m == mutations[i] IN
       products' = IF products[m.id] # NoProduct
                   THEN [products EXCEPT ![m.id] = storedRow(m.data)]
                   ELSE products
    /\ formMutationSuccess("Product updated successfully")
    /\ mutations' = RemoveAt(mutations, i)
    /\ UNCHANGED <<nextProductId, productList, uploads>>
    /\ UNCHANGED mutationId
    /\ UNCHANGED <<blogVars, shopClient>>

(* deleteMutation, lines 69-78 *)
deleteMutationSucceeds(i) ==
    /\ i \in 1..Len(mutations)
    /\ mutations[i].kind = "delete"
    /\ products' = [products EXCEPT ![mutations[i].id] = NoProduct]
    /\ productsStale' = TRUE
    /\ adminToasts' = <<"Product deleted successfully">>
    /\ mutations' = RemoveAt(mutations, i)
    /\ UNCHANGED <<nextProductId, productList, dialogOpen, editingProduct, formData, uploads>>
    /\ UNCHANGED mutationId
    /\ UNCHANGED <<blogVars, shopClient>>

\* lines 46, 59, 72: the table call fails and mutationFn throws; none of the
\* three mutations has an onError
productMutationFails(i) ==
    /\ i \in 1..Len(mutations)
    /\ mutations' = RemoveAt(mutations, i)
    /\ adminToasts' = <<>>
    /\ UNCHANGED <<products, nextProductId, productList, productsStale, dialogOpen,
                   editingProduct, formData, uploads>>
    /\ UNCHANGED mutationId
    /\ UNCHANGED <<blogVars, shopClient>>

(* the image input, lines 214-244 *)
\* lines 218-228: the upload is started; the handler holds the formData of its render
imageSelected(file) ==
    /\ dialogOpen
    /\ Len(uploads) < MaxUploads
    /\ uploads' = Append(uploads, [formData |-> formData, file |-> file])
    /\ adminToasts' = <<>>
    /\ UNCHANGED <<products, nextProductId, productList, productsStale, dialogOpen,
                   editingProduct, formData, mutations, mutationId>>
    /\ UNCHANGED <<blogVars, shopClient>>

\* lines 236-242: setFormData({ ...formData, image_url: publicData.publicUrl })
imageUploadSucceeds(i) ==
    /\ i \in 1..Len(uploads)
    /\ formData' = [uploads[i].formData EXCEPT !.image_url = uploads[i].file]
    /\ adminToasts' = <<"Image uploaded successfully">>
    /\ uploads' = RemoveAt(uploads, i)
    /\ UNCHANGED <<products, nextProductId, productList, productsStale, dialogOpen,
                   editingProduct, mutations, mutationId>>
    /\ UNCHANGED <<blogVars, shopClient>>

\* lines 230-233
imageUploadFails(i) ==
    /\ i \in 1..Len(uploads)
    /\ adminToasts' = <<"Image upload failed">>
    /\ uploads' = RemoveAt(uploads, i)
    /\ UNCHANGED <<products, nextProductId, productList, productsStale, dialogOpen,
                   editingProduct, formData, mutations, mutationId>>
    /\ UNCHANGED <<blogVars, shopClient>>

----------------------------------------------------------------------------
(* Initial states *)

\* the media list a session of this editor wrote from the types of its uploads
StoredMedia(types) == [i \in 1..Len(types) |-> MediaItem(types[i], 100 + i)]

StoredContent == <<"a">>
Row(id, media, published) ==
    [id |-> id, content |-> StoredContent, media |-> media, is_published |-> published]

\* the profile query before its first fetch (profile === undefined)
NoProfile == [loaded |-> FALSE]
Profile(name, phone, address) == [name |-> name, phone |-> phone, address |-> address]

\* the products of the shop
ShopInit ==
    /\ products = [id \in ProductIds |-> IF id = 1 THEN Product("X", 10) ELSE Product("Y", 5)]
    /\ nextProductId = Cardinality(ProductIds) + 1

ClientInit ==
    /\ storage = <<>>
    /\ submits = 0
    /\ blogs = [status |-> "loading", data |-> <<>>]
    /\ blogsStale = FALSE
    /\ editingBlog = NoBlog
    /\ publish = TRUE
    /\ existingMedia = <<>>
    /\ newFiles = <<>>
    /\ mut = Idle
    /\ toasts = <<>>
    /\ pageData = [status |-> "loading", data |-> <<>>]
    /\ content = <<>>
    /\ user = TRUE
    /\ profile = NoProfile
    /\ productList = [status |-> "loading", data |-> <<>>]
    /\ productsStale = FALSE
    /\ dialogOpen = FALSE
    /\ editingProduct = NoSelection
    /\ formData = EmptyForm
    /\ mutations = <<>>
    /\ mutationId = 0
    /\ uploads = <<>>
    /\ adminToasts = <<>>
    /\ orders = <<>>
    /\ order_items = <<>>
    /\ cartItems = NotLoaded
    /\ processing = FALSE
    /\ order = NoOrder
    /\ calls = <<>>
    /\ shopToasts = <<>>
    /\ href = CheckoutPage

\* the editor over a table holding one blog with MaxInit images, which an
\* earlier session created
InitBlog ==
    /\ ClientInit
    /\ ShopInit
    /\ profiles = Profile(<<"A">>, <<"B">>, <<"C">>)
    /\ cart_items = <<>>
    /\ nextId = 2
    /\ blogsTable = <<Row(1, JsArray(StoredMedia([i \in 1..MaxInit |-> "image"])), TRUE)>>

NextBlog ==
    \/ setContent(StoredContent)
    \/ \E files \in PlainSelections : handleFileChange(files)
    \/ resetForm
    \/ \E i \in 1..Len(blogs.data) : handleEdit(blogs.data[i])
    \/ \E index \in 1..RemoveUpTo : handleRemoveExistingMedia(index)
    \/ \E index \in 1..RemoveUpTo : handleRemoveNewFile(index)
    \/ handleSubmit
    \/ uploadSucceeds
    \/ uploadFails
    \/ writeSucceeds
    \/ writeFails
    \/ \E i \in 1..Len(blogs.data) : deleteBlogSucceeds(blogs.data[i].id)
    \/ \E i \in 1..Len(blogs.data) : deleteBlogFails(blogs.data[i].id)
    \/ adminQueryFn

SpecBlog == InitBlog /\ [][NextBlog]_vars

\* the editor form alone, over a table holding one blog; the stored list may
\* hold more than MaxImages images (InitBlog reaches such rows)
InitForm ==
    /\ ClientInit
    /\ ShopInit
    /\ profiles = Profile(<<"A">>, <<"B">>, <<"C">>)
    /\ cart_items = <<>>
    /\ nextId = 2
    /\ \E types \in SeqsUpTo({"image", "video"}, MaxMedia) :
          blogsTable = <<Row(1, JsArray(StoredMedia(types)), TRUE)>>

NextForm ==
    \/ \E files \in Selections : handleFileChange(files)
    \/ resetForm
    \/ \E i \in 1..Len(blogs.data) : handleEdit(blogs.data[i])
    \/ \E index \in 1..MaxMedia : handleRemoveExistingMedia(index)
    \/ \E index \in 1..MaxMedia : handleRemoveNewFile(index)
    \/ \E checked \in BOOLEAN : setPublish(checked)
    \/ adminQueryFn

SpecForm == InitForm /\ [][NextForm]_vars

\* JSON.stringify of a value built of media items, null and arrays
RECURSIVE JSONStringify(_), StringifyElements(_)
JSONStringify(v) ==
    IF IsArray(v) THEN <<Tok("[")>> \o StringifyElements(v.items) \o <<Tok("]")>>
    ELSE IF v = JsNull THEN <<Tok("null")>>
    ELSE <<ObjTok(v)>>
StringifyElements(items) ==
    IF items = <<>> THEN <<>>
    ELSE IF Len(items) = 1 THEN JSONStringify(items[1])
    ELSE JSONStringify(items[1]) \o <<Tok(",")>> \o StringifyElements(Tail(items))

\* the stored cells: arrays, null, a number, and every string of up to MaxTokens tokens
Tokens == {Tok("["), Tok("]"), Tok(","), Tok("null"), Tok("junk"),
           ObjTok(MediaItem("image", 101))}
ListElements == {MediaItem("image", 101), MediaItem("video", 102), JsNull, JsArray(<<>>)}
Lists == SeqsUpTo(ListElements, (MaxTokens - 1) \div 2)
Cells == {JsArray(l) : l \in Lists}
            \cup {JsString(text) : text \in SeqsUpTo(Tokens, MaxTokens)}
            \cup {JsNull, JsNumber}

\* the admin list and the public page over a table of two blogs, the first
\* holding any cell, the second a list
InitMedia ==
    /\ ClientInit
    /\ ShopInit
    /\ profiles = Profile(<<"A">>, <<"B">>, <<"C">>)
    /\ cart_items = <<>>
    /\ nextId = 3
    /\ \E cell \in Cells, published \in BOOLEAN :
          blogsTable = <<Row(2, cell, TRUE),
                         Row(1, JsArray(StoredMedia(<<"image", "audio">>)), published)>>

NextMedia ==
    \/ adminQueryFn
    \/ blogQueryFn
    \/ \E i \in 1..Len(blogs.data) : handleEdit(blogs.data[i])

SpecMedia == InitMedia /\ [][NextMedia]_vars

\* the carts a user may hold: up to MaxCart lines of the two products
CartLine(id, quantity) == [product_id |-> id, quantity |-> quantity]
Carts == SeqsUpTo({CartLine(id, q) : id \in ProductIds, q \in Quantities}, MaxCart)

\* the checkout page of a signed-in user, and the product admin at work on product 1
InitShop ==
    /\ ClientInit
    /\ ShopInit
    /\ profiles = Profile(<<"A">>, <<"B">>, <<"C">>)
    /\ blogsTable = <<>>
    /\ nextId = 1
    /\ cart_items \in Carts

NextShop ==
    \/ cartQueryFn
    \/ handleCheckout
    \/ orderInsertSucceeds
    \/ orderInsertFails
    \/ itemsInsertSucceeds
    \/ itemsInsertFails
    \/ cartClearSucceeds
    \/ cartClearFails
    \/ \E name \in {"X", "Z"}, price \in Prices : productUpdate(1, Product(name, price))
    \/ productDelete(1)

SpecShop == InitShop /\ [][NextShop]_vars

\* the product panel over a table holding product 1; another session of the
\* panel updates or deletes product 1
PriceTexts == {<<"5">>, <<"x">>}
StockTexts == {<<"5">>, <<".", "0">>}
InitProducts ==
    /\ ClientInit
    /\ profiles = Profile(<<"A">>, <<"B">>, <<"C">>)
    /\ blogsTable = <<>>
    /\ nextId = 1
    /\ cart_items = <<>>
    /\ products = [id \in ProductIds |-> IF id = 1 THEN Product("X", 10) ELSE NoProduct]
    /\ nextProductId = 2

NextProducts ==
    \/ productsQueryFn
    \/ addProduct
    \/ closeDialog
    \/ \E i \in 1..Len(productList.data) : Products_handleEdit(productList.data[i])
    \/ \E text \in {"", "A"} : setName(text)
    \/ \E text \in PriceTexts : setPrice(text)
    \/ \E text \in StockTexts : setStockCount(text)
    \/ Products_handleSubmit
    \/ \E i \in 1..Len(productList.data) : deleteProduct(productList.data[i].id)
    \/ \E i \in 1..MaxPending : createMutationSucceeds(i)
    \/ \E i \in 1..MaxPending : updateMutationSucceeds(i)
    \/ \E i \in 1..MaxPending : deleteMutationSucceeds(i)
    \/ \E i \in 1..MaxPending : productMutationFails(i)
    \/ productUpdate(1, Product("Z", 5))

SpecProducts == InitProducts /\ [][NextProducts]_vars


\* the blog panel and the product panel of one admin session, and the public
\* page, over a table of one blog and a table of one product
InitAdmin ==
    /\ ClientInit
    /\ profiles = Profile(<<"A">>, <<"B">>, <<"C">>)
    /\ cart_items = <<>>
    /\ nextId = 2
    /\ blogsTable = <<Row(1, JsArray(StoredMedia(<<"image", "video">>)), TRUE)>>
    /\ products = [id \in ProductIds |-> IF id = 1 THEN Product("X", 10) ELSE NoProduct]
    /\ nextProductId = 2

\* the two panels share no state: a behaviour is taken in one of them, the
\* panel whose list query ran first, while the other stays as constructed
blogPanelIdle == blogs.status = "loading" /\ pageData.status = "loading"
productPanelIdle == productList.status = "loading" /\ ~dialogOpen

NextAdmin ==
    \/ productPanelIdle /\ setContent(StoredContent)
    \/ productPanelIdle /\ \E i \in 1..Len(blogs.data) : handleEdit(blogs.data[i])
    \/ productPanelIdle /\ \E index \in 1..RemoveUpTo : handleRemoveExistingMedia(index)
    \/ productPanelIdle /\ setPublish(FALSE)
    \/ productPanelIdle /\ handleSubmit
    \/ productPanelIdle /\ writeSucceeds
    \/ productPanelIdle /\ \E i \in 1..Len(blogs.data) : deleteBlogSucceeds(blogs.data[i].id)
    \/ productPanelIdle /\ adminQueryFn
    \/ productPanelIdle /\ blogQueryFn
    \/ blogPanelIdle /\ productsQueryFn
    \/ blogPanelIdle /\ addProduct
    \/ blogPanelIdle /\ \E i \in 1..Len(productList.data) : Products_handleEdit(productList.data[i])
    \/ blogPanelIdle /\ setName("A")
    \/ blogPanelIdle /\ setPrice(<<"5">>)
    \/ blogPanelIdle /\ setStockCount(<<"5">>)
    \/ blogPanelIdle /\ Products_handleSubmit
    \/ blogPanelIdle /\ \E i \in 1..Len(productList.data) : deleteProduct(productList.data[i].id)
    \/ blogPanelIdle /\ \E i \in 1..MaxPending : createMutationSucceeds(i)
    \/ blogPanelIdle /\ \E i \in 1..MaxPending : updateMutationSucceeds(i)
    \/ blogPanelIdle /\ \E i \in 1..MaxPending : deleteMutationSucceeds(i)

SpecAdmin == InitAdmin /\ [][NextAdmin]_vars

\* the checkout of one customer, with the profile query, for the order message
MessageProfiles == {Profile(<<"A">>, <<"B">>, <<"C">>), Profile(<<"A">>, <<>>, <<>>)}
InitMessage ==
    /\ ClientInit
    /\ ShopInit
    /\ profiles \in MessageProfiles
    /\ blogsTable = <<>>
    /\ nextId = 1
    /\ cart_items \in Carts

NextMessage ==
    \/ cartQueryFn
    \/ profileQueryFn
    \/ handleCheckout
    \/ orderInsertSucceeds
    \/ itemsInsertSucceeds
    \/ cartClearSucceeds
    \/ productUpdate(1, Product("Z", 5))
    \/ productDelete(2)

SpecMessage == InitMessage /\ [][NextMessage]_vars

\* the product form with the image upload of lines 212-245
UploadedImages == {"P", "Q"}
InitImage == InitProducts

NextImage ==
    \/ productsQueryFn
    \/ addProduct
    \/ closeDialog
    \/ \E i \in 1..Len(productList.data) : Products_handleEdit(productList.data[i])
    \/ \E text \in {"A", "B"} : setName(text)
    \/ \E text \in StockTexts : setStockCount(text)
    \/ \E file \in UploadedImages : imageSelected(file)
    \/ \E i \in 1..MaxUploads : imageUploadSucceeds(i)
    \/ \E i \in 1..MaxUploads : imageUploadFails(i)

SpecImage == InitImage /\ [][NextImage]_vars

\* two sessions of the admin: this one, and another whose updates of blog 1
\* and of product 1 reach the tables
SessionPayloads ==
    {[content |-> <<"b">>, media |-> JsArray(<<MediaItem("audio", 201)>>), is_published |-> FALSE]}

NextSessions ==
    \/ productPanelIdle /\ handleFileChange(<<File("video", 1)>>)
    \/ productPanelIdle /\ \E i \in 1..Len(blogs.data) : handleEdit(blogs.data[i])
    \/ productPanelIdle /\ \E index \in 1..RemoveUpTo : handleRemoveExistingMedia(index)
    \/ productPanelIdle /\ setContent(<<" ">>)
    \/ productPanelIdle /\ handleSubmit
    \/ productPanelIdle /\ uploadSucceeds
    \/ productPanelIdle /\ writeSucceeds
    \/ productPanelIdle /\ writeFails
    \/ productPanelIdle /\ adminQueryFn
    \/ productPanelIdle /\ \E payload \in SessionPayloads : sessionUpdate(1, payload)
    \/ blogPanelIdle /\ productsQueryFn
    \/ blogPanelIdle /\ \E i \in 1..Len(productList.data) : Products_handleEdit(productList.data[i])
    \/ blogPanelIdle /\ \E text \in {"A", "B"} : setName(text)
    \/ blogPanelIdle /\ Products_handleSubmit
    \/ blogPanelIdle /\ \E i \in 1..MaxPending : updateMutationSucceeds(i)
    \/ blogPanelIdle /\ \E i \in 1..MaxPending : productMutationFails(i)
    \/ blogPanelIdle /\ \E price \in {5, 10} : productUpdate(1, Product("Z", price))

SpecSessions == InitAdmin /\ [][NextSessions]_vars

----------------------------------------------------------------------------
(* Properties of the editor form and of the uploads *)

ImageNotice == <<"Maximum 4 images allowed">>

\* C1: in every state of the rendered editor form the images of existingMedia
\* plus the image files of newFiles are at most 4.
C1_ImageCap ==
    ~isLoading => ImageItems(existingMedia) + ImageFiles(newFiles) <= MaxImages

\* the selection's images up to position i
ImagesUpTo(files, i) == Cardinality({j \in 1..i : files[j].kind = "image"})
\* the room left for images when the form holds c of them: max(0, 4 - c)
Room(c) == IF c < MaxImages THEN MaxImages - c ELSE 0
\* the positions of the selection that are to be kept
KeptPositions(files, c) ==
    {i \in 1..Len(files) : files[i].kind # "image" \/ ImagesUpTo(files, i) <= Room(c)}
RECURSIVE Pick(_, _, _)
Pick(files, K, i) ==
    IF i > Len(files) THEN <<>>
    ELSE (IF i \in K THEN <<files[i]>> ELSE <<>>) \o Pick(files, K, i + 1)

\* C2: one file selection appends, in selection order, every non-image file
\* and exactly the first max(0, 4 - c) images of the selection, c being the
\* images the form holds; it raises one notice if an image was dropped and
\* none otherwise.
C2_SelectionCapped ==
    [][\A files \in Selections :
          handleFileChange(files) =>
             LET c == ImageItems(existingMedia) + ImageFiles(newFiles)
                 K == KeptPositions(files, c)
             IN /\ newFiles' = newFiles \o Pick(files, K, 1)
                /\ toasts' = IF Cardinality(K) < Len(files) THEN ImageNotice ELSE <<>>]_vars

\* C2 witness: 3 existing images, 2 images selected: the first was accepted,
\* the second dropped with the notice
C2_Witness ==
    /\ ImageItems(existingMedia) = 3
    /\ newFiles = <<File("image", 1)>>
    /\ toasts = ImageNotice

\* the files the mutation in flight has uploaded are the last of the bucket
LastOf(s, k) == SubSeq(s, Len(s) - k + 1, Len(s))

\* what the mutation in flight has uploaded is a prefix of its batch, in order
C10_InOrder ==
    /\ Len(mut.uploaded) <= Len(storage)
    /\ LastOf(storage, Len(mut.uploaded)) = SubSeq(mut.files, 1, Len(mut.uploaded))
    /\ \A i \in 1..Len(mut.uploaded) :
           mut.uploaded[i].url = Len(storage) - Len(mut.uploaded) + i
\* the bucket changes by one file, the next of the batch
C10_OneAtATime ==
    storage' # storage =>
        /\ uploadPending
        /\ mut'.pc = "uploading"
        /\ storage' = Append(storage, mut.files[uploadIndex])
\* a mutation that goes on has uploaded one more file of the same batch
C10_LoopStep ==
    (mut.pc = "uploading" /\ mut'.pc = "uploading" /\ mut' # mut) =>
        /\ mut' = [mut EXCEPT !.uploaded = mut'.uploaded]
        /\ Len(mut'.uploaded) = Len(mut.uploaded) + 1
        /\ Len(storage') = Len(storage) + 1
\* a mutation that ends before its last upload wrote nothing and shows the store's error
C10_Abort ==
    (uploadPending /\ mut'.pc = "idle") =>
        /\ storage' = storage
        /\ blogsTable' = blogsTable
        /\ nextId' = nextId
        /\ toasts' = <<StorageError>>
\* after the failure only a new submission starts a mutation
C10_NoRetry ==
    (mut.pc = "idle" /\ mut'.pc # "idle") => submits' = submits + 1

\* C10: uploadFiles uploads the staged files one at a time in list order; a
\* failed upload ends the mutation with the store's error: nothing more is
\* uploaded, nothing is retried and the blogs table is not written.
C10_UploadAbort ==
    /\ [](mut.pc = "uploading" => C10_InOrder)
    /\ [][C10_OneAtATime /\ C10_LoopStep /\ C10_Abort /\ C10_NoRetry]_vars

\* C10 witness: of a batch of two files the first was uploaded and the second
\* failed; the table still holds the initial blog alone
C10_Witness ==
    /\ mut.pc = "idle"
    /\ toasts = <<StorageError>>
    /\ Len(storage) = 1
    /\ Len(newFiles) = 2
    /\ storage[1] = newFiles[1]
    /\ Len(blogsTable) = 1

----------------------------------------------------------------------------
(* Properties of the media parser *)

\* the media the admin list and the public page hold for the rows they fetched
AdminMedia(i) == blogs.data[i].media
PageMedia(i) == renderPage(pageData.data).cards[i].media

\* what the claim promises for a cell: the list itself, or the list a string encodes
RoundTrips(cell, media) ==
    /\ IsArray(cell) => media = cell
    /\ \A l \in Lists :
          (IsString(cell) /\ cell.text = JSONStringify(JsArray(l))) => media = JsArray(l)

\* C3: the parser of the admin list and of the public page returns a list
\* unchanged, and for a JSON string that encodes a list exactly that list.
C3_ParserRoundTrip ==
    /\ blogs.status = "success" =>
          /\ Len(blogs.data) = Len(blogsTable)
          /\ \A i \in 1..Len(blogsTable) : RoundTrips(blogsTable[i].media, AdminMedia(i))
    /\ pageData.status = "success" =>
          \A i \in 1..Len(pageData.data) : RoundTrips(pageData.data[i].media, PageMedia(i))

\* C3 witness: the string encoding a list of two elements was decoded to it
C3_Witness ==
    /\ blogs.status = "success" /\ pageData.status = "success"
    /\ blogsTable[1].media = JsString(JSONStringify(JsArray(<<MediaItem("image", 101), JsNull>>)))
    /\ AdminMedia(1) = JsArray(<<MediaItem("image", 101), JsNull>>)
    /\ PageMedia(1) = JsArray(<<MediaItem("image", 101), JsNull>>)

Malformed(cell) == IsString(cell) /\ ~JSONParse(cell.text).ok

\* C4: a malformed string cell yields the empty list and no error: the list
\* fetch and the render complete and the other rows are as stored.
C4_MalformedIsEmpty ==
    /\ blogs.status # "error"
    /\ blogs.status = "success" =>
          /\ Len(blogs.data) = Len(blogsTable)
          /\ \A i \in 1..Len(blogsTable) :
                /\ blogs.data[i].id = blogsTable[i].id
                /\ blogs.data[i].is_published = blogsTable[i].is_published
                /\ Malformed(blogsTable[i].media) => AdminMedia(i) = JsArray(<<>>)
                /\ IsArray(blogsTable[i].media) => AdminMedia(i) = blogsTable[i].media
    /\ pageData.status = "success" =>
          LET page == renderPage(pageData.data) IN
          /\ \A i \in 1..Len(pageData.data) :
                /\ Malformed(pageData.data[i].media) =>
                      page.cards[i].ok /\ page.cards[i].media = JsArray(<<>>)
                /\ IsArray(pageData.data[i].media) =>
                      page.cards[i].ok /\ page.cards[i].media = pageData.data[i].media
          /\ (\A i \in 1..Len(pageData.data) :
                 Malformed(pageData.data[i].media) \/ IsArray(pageData.data[i].media))
                => page.ok

\* C4 witness: a malformed cell next to a list, both fetched and rendered
C4_Witness ==
    /\ blogs.status = "success" /\ pageData.status = "success"
    /\ blogsTable[1].media = JsString(<<Tok("["), ObjTok(MediaItem("image", 101)), Tok(",")>>)
    /\ Len(pageData.data) = 2
    /\ AdminMedia(1) = JsArray(<<>>)
    /\ Len(AdminMedia(2).items) = 2

----------------------------------------------------------------------------
(* Properties of the checkout *)

WriteOrder == <<"orders", "order_items", "cart_items">>
AllWritten == <<Call("orders", TRUE), Call("order_items", TRUE), Call("cart_items", TRUE)>>
OrderPlaced == <<"Order placed successfully!">>
ItemsOf(id) == SelectSeq(order_items, LAMBDA row : row.order_id = id)
FailedAt(table) ==
    /\ order.pc = "idle"
    /\ calls # <<>>
    /\ calls[Len(calls)] = Call(table, FALSE)

\* C5: the writes of the order mutation are issued in the order orders,
\* order_items, cart_items, each only after the one before it succeeded; the
\* success notice and the redirect follow the success of all three.
C5_WriteSequence ==
    /\ Len(calls) <= 3
    /\ \A i \in 1..Len(calls) :
          /\ calls[i].table = WriteOrder[i]
          /\ i < Len(calls) => calls[i].ok
    /\ order.pc = "items" => calls = SubSeq(AllWritten, 1, 1)
    /\ order.pc = "clear" => calls = SubSeq(AllWritten, 1, 2)
    /\ \A row \in {order_items[i] : i \in 1..Len(order_items)} :
          \E o \in {orders[i] : i \in 1..Len(orders)} : o.id = row.order_id
    /\ shopToasts = OrderPlaced => calls = AllWritten
    /\ href # CheckoutPage => calls = AllWritten /\ cart_items = <<>>

\* C5 witness: the three writes were made and the browser left for the chat link
C5_Witness ==
    /\ href # CheckoutPage
    /\ shopToasts = OrderPlaced
    /\ calls = AllWritten
    /\ Len(orders) = 1 /\ Len(order_items) = 2

IsPrefix(s, t) == Len(s) <= Len(t) /\ SubSeq(t, 1, Len(s)) = s

\* the state a failed order mutation leaves behind
C6_PartialState ==
    /\ FailedAt("order_items") =>
          /\ orders # <<>>
          /\ ItemsOf(orders[Len(orders)].id) = <<>>
          /\ cart_items # <<>>
    /\ FailedAt("cart_items") =>
          /\ orders # <<>>
          /\ ItemsOf(orders[Len(orders)].id) # <<>>
          /\ cart_items # <<>>
\* the step in which a write after the first fails undoes nothing
C6_FailureStep ==
    (order.pc \in {"items", "clear"} /\ order'.pc = "idle" /\ href' = CheckoutPage) =>
        /\ orders' = orders
        /\ order_items' = order_items
        /\ cart_items' = cart_items
\* no step removes an order or an order line; the cart changes only when it is cleared
C6_NothingUndone ==
    /\ IsPrefix(orders, orders')
    /\ IsPrefix(order_items, order_items')
    /\ cart_items' # cart_items => order.pc = "clear" /\ href' # CheckoutPage

\* C6: there is no rollback: after a failed order_items insert the order row
\* stays without line items and the cart is untouched; after a failed cart
\* delete the order and its lines stay and the cart holds the same items.
C6_NoRollback ==
    /\ []C6_PartialState
    /\ [][C6_FailureStep /\ C6_NothingUndone]_vars

\* C6 witness: a first attempt failed at the order_items insert, a second at
\* the cart delete: order 1 has no lines, order 2 has its lines, the cart is full
C6_Witness ==
    /\ FailedAt("cart_items")
    /\ Len(orders) = 2
    /\ ItemsOf(1) = <<>>
    /\ ItemsOf(2) # <<>>
    /\ Len(cart_items) = 2

\* C7: no idempotency guard: after a failure at the order_items or cart step
\* processing is false and the order can be sent again; every attempt whose
\* first write succeeds adds one order row.
C7_Resubmit ==
    /\ []((FailedAt("order_items") \/ FailedAt("cart_items")) =>
            /\ ~processing
            /\ (checkoutRendered /\ Len(orders) < MaxOrders) => ENABLED handleCheckout)
    /\ [][(order.pc = "timer" /\ order'.pc = "items") =>
              /\ Len(orders') = Len(orders) + 1
              /\ IsPrefix(orders, orders')]_vars

\* C7 witness: two orders for one cart, which is still full, and the button is free again
C7_Witness ==
    /\ Len(orders) = 2
    /\ orders[1].total_amount = orders[2].total_amount
    /\ cart_items # <<>>
    /\ FailedAt("order_items")
    /\ ~processing

\* the total as the claim states it: the sum of unit price times quantity,
\* a line without product or price counting 0
ClaimedLine(item) ==
    IF item.products = NoProduct THEN 0
    ELSE IF item.products.price = NullPrice THEN 0
    ELSE item.products.price * item.quantity
RECURSIVE SumTo(_, _, _)
SumTo(f(_), s, n) == IF n = 0 THEN 0 ELSE SumTo(f, s, n - 1) + f(s[n])
ClaimedTotal(items) == SumTo(ClaimedLine, items, Len(items))
RowAmount(row) == row.price * row.quantity
ItemsSum(id) == SumTo(RowAmount, ItemsOf(id), Len(ItemsOf(id)))

C8_Totals ==
    /\ cartItems.loaded => total = ClaimedTotal(cartItems.data)
    /\ order.pc \in {"items", "clear"} =>
          /\ order.total = ClaimedTotal(order.cart)
          /\ orders[Len(orders)] = [id |-> order.id, total_amount |-> order.total]
    /\ \A i \in 1..Len(orders) :
          ItemsOf(orders[i].id) # <<>> => ItemsSum(orders[i].id) = orders[i].total_amount
    /\ href # CheckoutPage => href.total = orders[Len(orders)].total_amount

\* C8: the checkout total is the sum over the cart lines of unit price times
\* quantity (0 for a line without product or price); the amount written to the
\* order, the total of the payment summary and the sum over the order lines
\* written are this same value.
C8_TotalIsSum ==
    /\ []C8_Totals
    /\ [][(order.pc = "timer" /\ order'.pc = "items") =>
              orders'[Len(orders')].total_amount = total]_vars

\* C8 witness: the cart [{10, 2}, {5, 1}] was ordered for 25
C8_Witness ==
    /\ Len(orders) = 1
    /\ orders[1].total_amount = 25
    /\ Len(ItemsOf(1)) = 2
    /\ ItemsOf(1)[1].price = 10 /\ ItemsOf(1)[1].quantity = 2
    /\ ItemsOf(1)[2].price = 5 /\ ItemsOf(1)[2].quantity = 1

\* C9: a product update or delete leaves every order line and every order as written.
C9_OrdersKeepCopies ==
    [][products' # products => (order_items' = order_items /\ orders' = orders)]_vars

\* C9 witness: an order line of product 1 keeps name X and price 10 while the
\* product is now called Z at another price, or is gone
C9_Witness ==
    \E i \in 1..Len(order_items) :
        /\ order_items[i].product_id = 1
        /\ order_items[i].product_name = "X" /\ order_items[i].price = 10
        /\ products[1] \in {NoProduct, Product("Z", 5)}

----------------------------------------------------------------------------
(* Properties of the list refresh *)

BlogErrors == {<<StorageError>>, <<DatabaseError>>, <<"Failed to delete blog">>}

\* C11: every create, update and delete mutation of the panel, whatever its
\* outcome, is followed by the invalidation of the panel's list query: the
\* step that ends a mutation, in success or in error, leaves the list stale.
C11_AlwaysInvalidates ==
    [][((mut.pc # "idle" /\ mut'.pc = "idle") \/ (toasts' \in BlogErrors))
          => blogsStale']_vars

\* a row of the blogs table as an entry of the admin list shows it
BlogShown(entry, row) ==
    /\ entry.id = row.id
    /\ entry.content = row.content
    /\ entry.is_published = row.is_published
    /\ IsArray(row.media) => entry.media = row.media
\* the admin list shows every row of the table and nothing else
AdminFresh(data, table) ==
    /\ \A j \in 1..Len(table) : \E i \in 1..Len(data) : BlogShown(data[i], table[j])
    /\ \A i \in 1..Len(data) : \E j \in 1..Len(table) : BlogShown(data[i], table[j])
\* the public page holds every published row and nothing else
PageFresh(data, table) ==
    /\ \A j \in 1..Len(table) :
          table[j].is_published => \E i \in 1..Len(data) : data[i] = table[j]
    /\ \A i \in 1..Len(data) :
          \E j \in 1..Len(table) : data[i] = table[j] /\ table[j].is_published
\* the product list shows every product of the table with its values and nothing else
ProductsFresh(data, table) ==
    /\ \A id \in ProductIds : table[id] # NoProduct => \E i \in 1..Len(data) : data[i].id = id
    /\ \A i \in 1..Len(data) :
          LET row == table[data[i].id] IN
          /\ row # NoProduct
          /\ data[i].name = row.name /\ data[i].price = row.price
          /\ data[i].stock_count = row.stock_count /\ data[i].image_url = row.image_url

\* a fetch of a list query that completes yields the table as it is then
C12_Fetched ==
    /\ (blogs' # blogs \/ (blogsStale /\ ~blogsStale')) => AdminFresh(blogs'.data, blogsTable')
    /\ pageData' # pageData => PageFresh(pageData'.data, blogsTable')
    /\ (productList' # productList \/ (productsStale /\ ~productsStale'))
          => ProductsFresh(productList'.data, products')
\* once the refetch that follows a mutation has completed no stale entry is shown
C12_NoStaleEntry ==
    /\ (blogs.status = "success" /\ ~blogsStale) => AdminFresh(blogs.data, blogsTable)
    /\ (productList.status = "success" /\ ~productsStale)
          => ProductsFresh(productList.data, products)

\* C12: after a create, update or delete of a blog or product the list
\* fetched next reflects the change: it holds the created row, the updated
\* values and no deleted row, and no stale entry is shown once the refetch
\* has completed.
C12_ListReflectsChange ==
    /\ []C12_NoStaleEntry
    /\ [][C12_Fetched]_vars

\* C12 witness: the stored blog was updated (first item removed, unpublished)
\* and the list refetched shows the updated row
C12_Witness ==
    /\ blogs.status = "success" /\ ~blogsStale
    /\ toasts = <<>>
    /\ Len(blogsTable) = 1
    /\ blogsTable[1].media = JsArray(<<MediaItem("video", 102)>>)
    /\ ~blogsTable[1].is_published
    /\ ~blogs.data[1].is_published
    /\ blogs.data[1].media = JsArray(<<MediaItem("video", 102)>>)

----------------------------------------------------------------------------
(* Properties of concurrent sessions *)

\* the cart of the user as the store holds it now, joined with the products
StoredCart == [i \in 1..Len(cart_items) |-> cartRow(cart_items[i])]

\* C13: an operation reloads its inputs from the remote store before it acts,
\* so what it writes is not derived from a client-held snapshot that another
\* mutation made stale: the order written by the checkout is computed from the
\* cart and the products as the store holds them when it is written.
C13_WritesFromFreshInputs ==
    [][(order.pc = "timer" /\ order'.pc = "items") =>
          /\ order'.cart = StoredCart
          /\ orders'[Len(orders')].total_amount = reduceTotal(StoredCart, 0)]_vars

HoldsPayload(row, payload) ==
    /\ row.content = payload.content
    /\ row.media = payload.media
    /\ row.is_published = payload.is_published
BlogUpdated == <<"Blog updated successfully">>

\* the update of this session: the row of the blog holds the payload, whole
C14_ThisSession ==
    (writePending /\ mut.kind = "update" /\ toasts' = BlogUpdated) =>
        /\ Len(blogsTable') = Len(blogsTable)
        /\ \A i \in 1..Len(blogsTable) :
              IF blogsTable[i].id = mut.id
              THEN HoldsPayload(blogsTable'[i], updatePayload)
              ELSE blogsTable'[i] = blogsTable[i]
\* the update of the other session: the row of the blog holds its payload, whole
C14_OtherSession ==
    \A payload \in SessionPayloads :
        sessionUpdate(1, payload) =>
            \A i \in 1..Len(blogsTable) :
                blogsTable[i].id = 1 => HoldsPayload(blogsTable'[i], payload)
\* product updates: the row holds the data of the update applied
C14_Products ==
    /\ \A i \in 1..Len(mutations) :
          (updateMutationSucceeds(i) /\ products[mutations[i].id] # NoProduct) =>
              LET data == mutations[i].data
                  row == products'[mutations[i].id]
              IN /\ row.name = data.name /\ row.price = data.price
                 /\ row.stock_count = data.stock_count /\ row.image_url = data.image_url
    /\ \A price \in {5, 10} :
          productUpdate(1, Product("Z", price)) => products'[1] = Product("Z", price)
\* no conflict detection: an update in flight succeeds whatever happened to the row
C14_NoConflictDetection ==
    /\ (writePending /\ mut.kind = "update") => ENABLED writeSucceeds
    /\ \A i \in 1..Len(mutations) :
          mutations[i].kind = "update" => ENABLED updateMutationSucceeds(i)

\* C14: last writer wins: when two sessions that loaded the same blog or
\* product both update it, both updates succeed and the row holds exactly the
\* payload of the update applied last, its whole media list included, with
\* nothing of the earlier update merged in.
C14_LastWriterWins ==
    /\ []C14_NoConflictDetection
    /\ [][C14_ThisSession /\ C14_OtherSession /\ C14_Products]_vars

\* C14 witness: this session loaded blog 1, the other session updated it (the
\* list refetched shows that update), then this session's update succeeded: the
\* row holds this session's payload and nothing of the other update
C14_Witness ==
    /\ toasts = BlogUpdated
    /\ blogs.data[1].content = <<"b">>
    /\ blogs.data[1].media = JsArray(<<MediaItem("audio", 201)>>)
    /\ blogsTable[1].content = <<"a">>
    /\ blogsTable[1].media = JsArray(StoredMedia(<<"image", "video">>))
    /\ blogsTable[1].is_published

----------------------------------------------------------------------------
(* Properties of validation and of failures *)

\* a blog mutation that reached its uploads or its write passed the checks of
\* lines 117-118 and 146-147
C15_Blog ==
    mut.pc # "idle" =>
        /\ trim(mut.content) # <<>>
        /\ mut.kind = "create" => user
        /\ mut.kind = "update" => mut.id # NoBlog.id
\* a rejected blog submission changes neither the bucket nor the table
C15_BlogRejected ==
    (toasts' # toasts /\ toasts' \in {<<"Not authenticated">>, <<"No blog selected">>,
                                      <<"Content is required">>}) =>
        /\ storage' = storage /\ blogsTable' = blogsTable /\ mut' = Idle
\* a product insert or update in flight has a name and a parsed price and stock count
C15_Products ==
    \A i \in 1..Len(mutations) :
        mutations[i].kind \in {"create", "update"} =>
            /\ mutations[i].data.name # ""
            /\ mutations[i].data.price # NaN
            /\ mutations[i].data.stock_count # NaN

\* C15: a submission that fails client-side validation makes no remote call:
\* a blog create or update with empty or whitespace-only content (or a create
\* with no user, or an update with no blog selected) performs no upload and no
\* write on blogs, and a product submission whose name is missing or whose
\* price or stock count does not parse as a number performs no insert or
\* update on products.
C15_NoCallWhenInvalid == C15_Blog /\ C15_Products

\* the blog half of C15, which holds
C15_BlogHalf == []C15_Blog /\ [][C15_BlogRejected]_vars
\* a whitespace-only content is rejected by the blog editor
C15_BlogHalfWitness == toasts = <<"Content is required">> /\ content = <<" ">>

\* the failures of the blog mutations raise the toast of onError and end the mutation
C16_Blog ==
    /\ (uploadFails \/ writeFails) => (toasts' \in BlogErrors /\ mut' = Idle)
    /\ \A i \in 1..Len(blogs.data) :
          deleteBlogFails(blogs.data[i].id) => toasts' = <<"Failed to delete blog">>
\* the failures of the order mutation raise the toast of onError and end the mutation
C16_Checkout ==
    (orderInsertFails \/ itemsInsertFails \/ cartClearFails) =>
        (shopToasts' = <<"Failed to place order">> /\ order'.pc = "idle")
\* the failures of the product mutations and of the image upload raise an error toast
C16_Products ==
    /\ \A i \in 1..Len(mutations) :
          productMutationFails(i) =>
              (adminToasts' # <<>> /\ Len(mutations') = Len(mutations) - 1)
    /\ \A i \in 1..Len(uploads) :
          imageUploadFails(i) => adminToasts' = <<"Image upload failed">>

\* C16: every failed remote mutation (blog create, update, delete; product
\* create, update, delete; product image upload; checkout) is surfaced as an
\* error toast, the operation is abandoned, and it is not retried.
C16_FailuresSurfaced == [][C16_Blog /\ C16_Checkout /\ C16_Products]_vars

\* the blog and checkout part of C16, which holds
C16_WithOnError == [][C16_Blog /\ C16_Checkout]_vars

----------------------------------------------------------------------------
(* Properties of the order message *)

Contains(text, piece) ==
    \E i \in 0..(Len(text) - Len(piece)) : SubSeq(text, i + 1, i + Len(piece)) = piece
HexDigits == DOMAIN DigitValue \cup {"A", "B", "C", "D", "E", "F"}
\* text is made of unreserved characters and of escapes %XX
IsPercentEncoded(text) ==
    \A i \in 1..Len(text) :
        \/ text[i] \in uriUnreserved
        \/ /\ text[i] = "%" /\ i + 2 <= Len(text)
           /\ text[i + 1] \in HexDigits /\ text[i + 2] \in HexDigits
\* the three fields of the profile the page holds, "N/A" for a missing one
C17_Field(field) ==
    IF profile.loaded /\ profiles[field] # <<>> THEN profiles[field] ELSE <<"N", "/", "A">>
C17_Customer ==
    <<"N", "a", "m", "e", ":", " ">> \o C17_Field("name")
    \o <<"\n", "P", "h", "o", "n", "e", ":", " ">> \o C17_Field("phone")
    \o <<"\n", "A", "d", "d", "r", "e", "s", "s", ":", " ">> \o C17_Field("address") \o <<"\n">>
\* the line of a cart line: its product's name and its quantity
C17_Line(item) ==
    <<"-", " ">>
    \o (IF item.products # NoProduct THEN <<item.products.name>> ELSE <<"I", "t", "e", "m">>)
    \o <<" ", "(", "x">> \o DigitsOf(item.quantity) \o <<")", "\n">>
\* one line per cart line, in cart order, then the amount written to the order
C17_Items ==
    LET line(i) == C17_Line(cartItems.data[i])
        lines == CASE Len(cartItems.data) = 1 -> line(1)
                   [] Len(cartItems.data) = 2 -> line(1) \o line(2)
                   [] Len(cartItems.data) = 3 -> line(1) \o line(2) \o line(3)
    IN <<"*", "O", "r", "d", "e", "r", " ", "I", "t", "e", "m", "s", "*", "\n">> \o lines
       \o <<"\n", "*", "T", "o", "t", "a", "l", " ", "A", "m", "o", "u", "n", "t", ":", "*", " ",
      "$">>
       \o DigitsOf(orders[Len(orders)].total_amount) \o <<".", "0", "0", "\n">>

\* C17: on checkout success the order message contains the profile's name,
\* phone and address ('N/A' for a missing one), one line per cart line in cart
\* order giving the product name and quantity, and the total returned by the
\* mutation (the amount written to the order); the redirect URL is the chat
\* deep link whose text parameter is the percent-encoding of that message.
C17_OrderMessage ==
    href # CheckoutPage =>
        /\ href.page = "wa.me"
        /\ href.phone = ADMIN_WHATSAPP
        /\ IsPercentEncoded(href.text)
        /\ Contains(href.text, encodeURIComponent(C17_Customer))
        /\ Contains(href.text, encodeURIComponent(C17_Items))

\* C17 witness: profile {A, B, C} and one cart line {X, quantity 2}: the text
\* of the URL is the percent-encoding of the whole message, total 20.00
C17_Witness ==
    /\ href # CheckoutPage
    /\ profile.loaded
    /\ href.text =
         <<"%", "F", "0", "%", "9", "F", "%", "9", "B", "%", "9", "2", "%", "2", "0", "*", "N",
      "e", "w", "%", "2", "0", "O", "r", "d", "e", "r", "%", "2", "0", "R", "e", "c",
      "e", "i", "v", "e", "d", "*", "%", "0", "A", "%", "0", "A", "*", "C", "u", "s",
      "t", "o", "m", "e", "r", "%", "2", "0", "D", "e", "t", "a", "i", "l", "s", "*",
      "%", "0", "A", "N", "a", "m", "e", "%", "3", "A", "%", "2", "0", "A", "%", "0",
      "A", "P", "h", "o", "n", "e", "%", "3", "A", "%", "2", "0", "B", "%", "0", "A",
      "A", "d", "d", "r", "e", "s", "s", "%", "3", "A", "%", "2", "0", "C", "%", "0",
      "A", "%", "0", "A", "*", "O", "r", "d", "e", "r", "%", "2", "0", "I", "t", "e",
      "m", "s", "*", "%", "0", "A", "-", "%", "2", "0", "X", "%", "2", "0", "(", "x",
      "2", ")", "%", "0", "A", "%", "0", "A", "*", "T", "o", "t", "a", "l", "%", "2",
      "0", "A", "m", "o", "u", "n", "t", "%", "3", "A", "*", "%", "2", "0", "%", "2",
      "4", "2", "0", ".", "0", "0", "%", "0", "A", "%", "0", "A", "P", "l", "e", "a",
      "s", "e", "%", "2", "0", "c", "o", "n", "f", "i", "r", "m", "%", "2", "0", "t",
      "h", "e", "%", "2", "0", "o", "r", "d", "e", "r", ".">>

\* C17 witness of a missing profile: the three fields read N/A
C17_WitnessNotAvailable ==
    /\ href # CheckoutPage
    /\ ~profile.loaded
    /\ Contains(href.text, encodeURIComponent(<<"N", "a", "m", "e", ":", " ", "N", "/", "A", "\n", "P", "h", "o", "n", "e", ":", " ",
      "N", "/", "A", "\n", "A", "d", "d", "r", "e", "s", "s", ":", " ", "N", "/", "A",
      "\n">>))

----------------------------------------------------------------------------
(* Properties of the media list of the editor *)

RECURSIVE IsSubsequence(_, _)
IsSubsequence(s, t) ==
    IF s = <<>> THEN TRUE
    ELSE IF t = <<>> THEN FALSE
    ELSE IF Head(s) = Head(t) THEN IsSubsequence(Tail(s), Tail(t))
    ELSE IsSubsequence(s, Tail(t))
HasRow(table, id) == \E i \in 1..Len(table) : table[i].id = id
RowOf(table, id) == table[CHOOSE i \in 1..Len(table) : table[i].id = id]
\* items holds existing, then one item per file, in order, each of the type of
\* its file and with the url of the place the file was stored at
KeptThenUploaded(items, existing, files) ==
    /\ Len(items) = Len(existing) + Len(files)
    /\ SubSeq(items, 1, Len(existing)) = existing
    /\ \A k \in 1..Len(files) :
          LET item == items[Len(existing) + k]
          IN /\ item.type = mediaType(files[k])
             /\ item.url \in 1..Len(storage)
             /\ storage[item.url] = files[k]
\* handleEdit of a blog the list shows as it is stored loads its whole media
\* list, in order, and stages no file
C18_Load ==
    (editingBlog' # editingBlog /\ editingBlog' # NoBlog) =>
        \A i \in 1..Len(blogs.data) :
            (/\ blogs.data[i].id = editingBlog'.id
             /\ HasRow(blogsTable, editingBlog'.id)
             /\ IsArray(RowOf(blogsTable, editingBlog'.id).media)
             /\ BlogShown(blogs.data[i], RowOf(blogsTable, editingBlog'.id))) =>
                /\ existingMedia' = RowOf(blogsTable, editingBlog'.id).media.items
                /\ newFiles' = <<>>
\* a removal keeps the other items in their order
C18_Keep ==
    \A index \in 1..Len(existingMedia) :
        handleRemoveExistingMedia(index) =>
            /\ Len(existingMedia') = Len(existingMedia) - 1
            /\ IsSubsequence(existingMedia', existingMedia)
            /\ \A i \in 1..Len(existingMedia) :
                  i # index => \E j \in 1..Len(existingMedia') :
                                  existingMedia'[j] = existingMedia[i]
\* the submission takes the lists of the form as they are
C18_Submit ==
    (mut.pc = "idle" /\ mut'.pc # "idle") =>
        (mut'.existing = existingMedia /\ mut'.files = newFiles)
\* the update writes the kept items then the uploaded ones, the create the
\* uploaded ones only
C18_Write ==
    /\ (writePending /\ toasts' = <<"Blog updated successfully">> /\ HasRow(blogsTable, mut.id)) =>
          LET media == RowOf(blogsTable', mut.id).media
          IN IsArray(media) /\ KeptThenUploaded(media.items, mut.existing, mut.files)
    /\ (writePending /\ toasts' = <<"Blog created successfully">>) =>
          LET media == blogsTable'[1].media
          IN /\ Len(blogsTable') = Len(blogsTable) + 1
             /\ IsArray(media) /\ KeptThenUploaded(media.items, <<>>, mut.files)

\* C18: the blog editor round-trips the media list: loading a blog with
\* handleEdit and saving it with no media removed and no file staged writes a
\* media list equal to the stored one; an update writes the kept existing
\* items in their original order followed by the newly uploaded items in
\* selection order, and a create writes only the newly uploaded items.
C18_MediaRoundTrip == [][C18_Load /\ C18_Keep /\ C18_Submit /\ C18_Write]_vars

\* C18 witness: the stored blog was loaded and saved with no change, and the
\* row holds the media list it held
C18_Witness ==
    /\ toasts = <<"Blog updated successfully">>
    /\ storage = <<>>
    /\ blogsTable[1].media = JsArray(StoredMedia([i \in 1..MaxInit |-> "image"]))
\* C18 witness of the general case: an update that removed the first item and
\* uploaded two files
C18_WitnessKeptThenUploaded ==
    /\ toasts = <<"Blog updated successfully">>
    /\ Len(storage) = 2
    /\ blogsTable[1].media.items =
          Tail(StoredMedia([i \in 1..MaxInit |-> "image"]))
          \o <<MediaItem(mediaType(storage[1]), 1), MediaItem(mediaType(storage[2]), 2)>>

----------------------------------------------------------------------------
(* Properties of the parser's result *)

\* C19: for every value of the stored media cell (a list, null or absent, a
\* string holding any JSON value, any other value) the parser's result is a
\* list, so the per-type filtering that follows it in the admin feed and on
\* the public blog page never fails.
C19_ParserYieldsList ==
    /\ blogs.status = "success" =>
          /\ \A i \in 1..Len(blogs.data) : IsArray(blogs.data[i].media)
          /\ renderFeed(blogs.data).ok
    /\ pageData.status = "success" =>
          /\ \A i \in 1..Len(pageData.data) : IsArray(parseMedia(pageData.data[i].media).media)
          /\ renderPage(pageData.data).ok

\* the part of C19 that holds: a cell that is a list of media items, null, a
\* number or a malformed string is rendered by both pages
C19_ListsAndMalformed ==
    \A j \in 1..Len(blogsTable) :
        LET cell == blogsTable[j].media IN
        (\/ cell \in {JsNull, JsNumber}
         \/ Malformed(cell)
         \/ IsArray(cell) /\ \A k \in 1..Len(cell.items) : ~IsNullish(cell.items[k])) =>
            /\ feedCard([blogsTable[j] EXCEPT !.media = parseMedia(cell).media]).ok
            /\ renderCard(blogsTable[j]).ok

----------------------------------------------------------------------------
(* Properties of the Send Order button *)

C20_InFlight == order.pc # "idle"
\* processing falls only when the order mutation fails
C20_StaysTrue ==
    (processing /\ ~processing') =>
        (C20_InFlight /\ order'.pc = "idle" /\ shopToasts' = <<"Failed to place order">>)
\* an order mutation is scheduled only from the enabled button, none being in flight
C20_OneAtATime ==
    (order' # order /\ order'.pc = "timer") => (~processing /\ ~C20_InFlight)

\* C20: from the moment handleCheckout is invoked until the order mutation
\* fails, processing stays true and the Send Order button stays disabled;
\* hence at most one order mutation is scheduled or in flight at any time, and
\* after a successful checkout no further one can be started from the page.
C20_SingleOrder ==
    /\ [](C20_InFlight => processing)
    /\ [](processing => ~ENABLED handleCheckout)
    /\ [](href # CheckoutPage => (processing /\ ~C20_InFlight /\ ~ENABLED handleCheckout))
    /\ [][C20_StaysTrue /\ C20_OneAtATime]_vars

\* C20 witness: an attempt failed, the order was sent again and succeeded:
\* processing is still true on the page that was left
C20_Witness ==
    /\ href # CheckoutPage
    /\ processing
    /\ Len(orders) = 2

----------------------------------------------------------------------------
(* Properties of the product image upload *)

\* the completion of an upload changes image_url only
C21_Completes ==
    \A i \in 1..Len(uploads) :
        imageUploadSucceeds(i) =>
            /\ formData'.image_url = uploads[i].file
            /\ formData'.name = formData.name
            /\ formData'.price = formData.price
            /\ formData'.stock_count = formData.stock_count
\* the failure of an upload leaves the form data as it is
C21_Fails ==
    \A i \in 1..Len(uploads) : imageUploadFails(i) => formData' = formData

\* C21: when a product image upload completes, only image_url of the product
\* form data changes: every other form field keeps the value it has at
\* completion time, including edits made while the upload was in flight; when
\* the upload fails, the form data is unchanged.
C21_OnlyImageUrl == [][C21_Completes /\ C21_Fails]_vars

\* the part of C21 that holds: a failed upload changes nothing of the form
C21_FailureFrame == [][C21_Fails]_vars

----------------------------------------------------------------------------
(* Properties of the update of a blog that was deleted *)

\* C22: whenever the blog update mutation reports success (success toast,
\* form reset), the blogs table contains a row with the edited blog's id
\* holding the submitted payload; this also holds when that blog was deleted,
\* through the panel's Delete button or by another session, while it was
\* loaded in the editor.
C22_SuccessImpliesRow ==
    [][(writePending /\ mut.kind = "update" /\ toasts' = <<"Blog updated successfully">>) =>
          /\ HasRow(blogsTable', mut.id)
          /\ HoldsPayload(RowOf(blogsTable', mut.id), updatePayload)]_vars

\* the part of C22 that holds: the update of a row that is there leaves it
\* holding the submitted payload
C22_RowPresent ==
    [][(/\ writePending /\ mut.kind = "update"
        /\ toasts' = <<"Blog updated successfully">>
        /\ HasRow(blogsTable, mut.id)) =>
          /\ HasRow(blogsTable', mut.id)
          /\ HoldsPayload(RowOf(blogsTable', mut.id), updatePayload)]_vars

====
